---- MODULE Spec2Model ----
(***************************************************************************)
(* Session / authentication subsystem of psyslop-landing:                  *)
(*   src/src/hooks.server.ts        handle (the request authenticator)     *)
(*   src/src/lib/server/sso-auth.ts cookie codec, claim reader, access     *)
(*                                  token cache, identity provider client  *)
(*   src/unnamed/part_005           keycloak verifier (first 83 lines)     *)
(*                                                                         *)
(* JavaScript runs each piece of code between two awaits without           *)
(* interruption, so one action of the model is the code from one await to  *)
(* the next.  Requests are the processes; the access cache and the clock   *)
(* are the state they share.                                               *)
(***************************************************************************)
EXTENDS Integers, Sequences, FiniteSets, TLC

(* ------------------------------------------------------------------ *)
(* Bounds of the model                                                  *)
(* ------------------------------------------------------------------ *)
\* Entries the access cache may hold.  The program's value is 5000
\* (sso-auth.ts:44); the model scales it down, the eviction arithmetic
\* below is the program's.
MaxCache == 1
\* Clock values: Date.now() ranges over TickMs, 2*TickMs .. MaxTick*TickMs.
MaxTick == 4
\* Characters of a returnTo value the login action is given.
MaxLen == 3
\* Pieces a refresh token string is put together from.
MaxPieces == 3

(* ------------------------------------------------------------------ *)
(* Program constants                                                    *)
(* ------------------------------------------------------------------ *)
ACCESS_REFRESH_SKEW_MS == 20000
ACCESS_CACHE_MAX == MaxCache

NULL == 0 - 1                    \* null / undefined of a numeric field
TickMs == ACCESS_REFRESH_SKEW_MS \div 2

Procs == {1, 2}                  \* request slots
EmptyRT == 0                     \* the empty string as a refresh token
RefreshTokens == 1..(ACCESS_CACHE_MAX + 1)

Max2(a, b) == IF a >= b THEN a ELSE b

(* ------------------------------------------------------------------ *)
(* Tokens.  A token string is modelled by what the claim reader can see *)
(* of it: what its middle segment decodes to, and (for an object) its   *)
(* exp claim and whether sub and a username are present.                *)
(*   seg = "empty"      the empty string                                *)
(*         "malformed"  fewer than two segments, or not base64url JSON  *)
(*         "falsy"      JSON null, 0, false or ""                       *)
(*         "prim"       a truthy JSON primitive (5, true, "x")          *)
(*         "array"      a JSON array                                    *)
(*         "object"     a JSON object                                   *)
(* ------------------------------------------------------------------ *)
NoExp == NULL
FreshExp == (MaxTick + 1) * (TickMs \div 1000)   \* exp claim, in seconds

\* owner: the refresh token of the /user/refresh call that obtained the
\* token (EmptyRT for a token that no refresh of this server obtained).
Jwt(seg, exp, ident) ==
    [seg |-> seg, exp |-> exp, ident |-> ident, owner |-> EmptyRT]
\* The access token in the provider's answer to POST /user/refresh with
\* refreshToken (sso-auth.ts:264-278): the provider issues it for that session.
IssuedFor(token, refreshToken) == [token EXCEPT !.owner = refreshToken]
EmptyToken == Jwt("empty", NoExp, FALSE)
PrimToken == Jwt("prim", NoExp, FALSE)

\* Access tokens the identity provider may answer with.
UpstreamTokens ==
    { Jwt("object", FreshExp, TRUE), Jwt("object", FreshExp, FALSE),
      Jwt("object", NoExp, TRUE) }
\* Tokens a client may send in an Authorization header.
HeaderTokens == { Jwt("object", FreshExp, TRUE), PrimToken }

\* sso-auth.ts:123-131.  The result is the parsed JSON value; json = "null"
\* stands for the null the function returns when it cannot decode.
decodeJwtPayload(token) ==
    IF token.seg \in {"empty", "malformed"}
    THEN [json |-> "null", exp |-> NoExp, ident |-> FALSE]
    ELSE [json |-> token.seg, exp |-> token.exp, ident |-> token.ident]

\* `!payload` of JavaScript.
Falsy(payload) == payload.json \in {"null", "falsy"}

\* sso-auth.ts:133-143.  `k in payload` throws a TypeError when payload is
\* a primitive; result is "null", "claims" or "throws".
inspectJwt(token) ==
    LET payload == decodeJwtPayload(token) IN
    IF Falsy(payload) THEN "null"
    ELSE IF payload.json = "prim" THEN "throws"
    ELSE "claims"

\* Mutant of getJwtExpiresAt: a token without a numeric exp never expires.
getJwtExpiresAtForever(token) ==
    IF token.seg = "object" /\ token.exp # NoExp THEN token.exp * 1000
    ELSE 1000 * 1000 * 1000

\* sso-auth.ts:145-152.
getJwtExpiresAt(token) ==
    IF token.seg = "empty" THEN NULL
    ELSE LET payload == decodeJwtPayload(token) IN
         IF Falsy(payload) THEN NULL
         ELSE IF payload.json # "object" \/ payload.exp = NoExp THEN NULL
         ELSE payload.exp * 1000

\* Mutant of userFromAccessToken: any object payload yields an identity.
userFromAccessTokenAnyObject(token) ==
    LET payload == decodeJwtPayload(token) IN
    IF Falsy(payload) THEN FALSE
    ELSE payload.json = "object"

\* sso-auth.ts:160-195.  TRUE when an identity can be reconstructed.
userFromAccessToken(token) ==
    LET payload == decodeJwtPayload(token) IN
    IF Falsy(payload) THEN FALSE
    ELSE payload.json = "object" /\ payload.ident

(* ------------------------------------------------------------------ *)
(* Authorization header / bearer strings: scheme word, the run of       *)
(* whitespace after it, and the rest (a token, or empty).               *)
(* ------------------------------------------------------------------ *)
Str(scheme, ws, rest) == [scheme |-> scheme, ws |-> ws, rest |-> rest]
NoHeader == Str("none", 0, EmptyToken)
NoBearer == Str("null", 0, EmptyToken)

\* Mutant of BearerPattern: the token part must be non-blank, /^Bearer\s+\S+/i.
BearerPatternNonBlank(h) ==
    h.scheme = "Bearer" /\ h.ws >= 1 /\ h.rest.seg # "empty"

\* /^Bearer\s+.+/i : `.` also matches a whitespace character, so a header
\* of "Bearer" and two whitespace characters matches.
BearerPattern(h) ==
    /\ h.scheme = "Bearer"
    /\ h.ws >= 1
    /\ (h.rest.seg # "empty" \/ h.ws >= 2)

\* bearer.replace(/^Bearer\s+/i, '').trim()
StripBearer(h) ==
    IF h.scheme = "Bearer" /\ h.ws >= 1 THEN h.rest
    ELSE Jwt("malformed", NoExp, FALSE)      \* nothing stripped: no JWT

\* `Bearer ${accessToken}`
BearerOf(accessToken) == Str("Bearer", 1, accessToken)

\* Authorization header values of the requests.
Headers ==
    { NoHeader, Str("Bearer", 2, EmptyToken) }
    \cup { Str("Bearer", 1, t) : t \in HeaderTokens }

(* ------------------------------------------------------------------ *)
(* Cookie codec (sso-auth.ts:33-87)                                     *)
(* ------------------------------------------------------------------ *)
RefreshCookie(rt, rexp) == [refresh_token |-> rt, refresh_expires_at |-> rexp]
NoSession == RefreshCookie(EmptyRT, NULL)        \* the null result

RawCookie(enc, value) == [enc |-> enc, json |-> value]
NoCookie == RawCookie("none", NoSession)         \* no cookie sent
GarbageCookie == RawCookie("garbage", NoSession) \* decodes under no scheme

\* sso-auth.ts:55-58
encodeRefreshCookie(value) == RawCookie("base64url", value)

\* sso-auth.ts:60-80: base64url first, then percent-encoded base64; null
\* when neither yields a structure with a non-empty refresh_token.
decodeRefreshCookie(raw) ==
    IF raw.enc = "base64url" /\ raw.json.refresh_token # EmptyRT THEN raw.json
    ELSE IF raw.enc = "legacy" /\ raw.json.refresh_token # EmptyRT THEN raw.json
    ELSE NoSession

\* sso-auth.ts:83-87
getStoredRefresh(cookie) ==
    IF cookie.enc = "none" THEN NoSession ELSE decodeRefreshCookie(cookie)

\* Mutant of RefreshExpired: the deadline itself already counts as expired.
RefreshExpiredAtDeadline(stored, nowMs) ==
    /\ stored.refresh_expires_at # NULL
    /\ stored.refresh_expires_at # 0
    /\ nowMs >= stored.refresh_expires_at

\* sso-auth.ts:302 and 311:
\*   storedRefresh.refresh_expires_at && Date.now() > storedRefresh.refresh_expires_at
RefreshExpired(stored, nowMs) ==
    /\ stored.refresh_expires_at # NULL
    /\ stored.refresh_expires_at # 0
    /\ nowMs > stored.refresh_expires_at

\* Expiry carried by the cookies the clients send: none, or a deadline that
\* passes while the clock runs.
CookieExpiries == {NULL, TickMs}
Cookies ==
    { NoCookie, GarbageCookie }
    \cup { encodeRefreshCookie(RefreshCookie(rt, x)) :
             rt \in RefreshTokens, x \in CookieExpiries }

(* ------------------------------------------------------------------ *)
(* Access token cache (sso-auth.ts:38-45, 154-158, 197-206).  The Map   *)
(* is a sequence in insertion order, which is the order Array.from      *)
(* hands to the stable sort of trimAccessCacheIfNeeded.                 *)
(* ------------------------------------------------------------------ *)
Entry(k, tok, exp, used) ==
    [key |-> k, access_token |-> tok, expires_at |-> exp, last_used_at |-> used]
NoEntry == Entry(EmptyRT, EmptyToken, NULL, 0)

Keys(cache) == {cache[i].key : i \in 1..Len(cache)}
IndexOf(cache, k) == CHOOSE i \in 1..Len(cache) : cache[i].key = k

\* accessCache.get(k)
CacheGet(cache, k) ==
    IF k \in Keys(cache) THEN cache[IndexOf(cache, k)] ELSE NoEntry

\* Mutant of CacheSet: one slot shared by every session, the Map keyed by a
\* constant instead of the refresh token.
CacheSetShared(cache, k, tok, exp, used) ==
    IF Len(cache) > 0
    THEN [cache EXCEPT ![1] = Entry(cache[1].key, tok, exp, used)]
    ELSE Append(cache, Entry(k, tok, exp, used))

\* Mutant of CacheSet: an entry that is already there is deleted rather than
\* overwritten.
CacheSetDeletes(cache, k, tok, exp, used) ==
    IF k \in Keys(cache)
    THEN SelectSeq(cache, LAMBDA e : e.key # k)
    ELSE Append(cache, Entry(k, tok, exp, used))

\* accessCache.set(k, entry): an existing key keeps its place in the order.
CacheSet(cache, k, tok, exp, used) ==
    IF k \in Keys(cache)
    THEN [cache EXCEPT ![IndexOf(cache, k)] = Entry(k, tok, exp, used)]
    ELSE Append(cache, Entry(k, tok, exp, used))

\* Mutant of CacheTouch: the hit leaves last_used_at alone.
CacheTouchSkipped(cache, k, nowMs) == cache

\* cached.last_used_at = now
CacheTouch(cache, k, nowMs) ==
    [cache EXCEPT ![IndexOf(cache, k)].last_used_at = nowMs]

\* Mutant of isAccessExpiringSoon: `<` for `<=`.
isAccessExpiringSoonStrict(entry, nowMs) ==
    \/ entry.key = EmptyRT
    \/ entry.access_token.seg = "empty"
    \/ entry.expires_at = NULL \/ entry.expires_at = 0
    \/ entry.expires_at - nowMs < ACCESS_REFRESH_SKEW_MS

\* sso-auth.ts:154-158
isAccessExpiringSoon(entry, nowMs) ==
    \/ entry.key = EmptyRT                       \* !entry
    \/ entry.access_token.seg = "empty"          \* !entry.access_token
    \/ entry.expires_at = NULL \/ entry.expires_at = 0
    \/ entry.expires_at - nowMs <= ACCESS_REFRESH_SKEW_MS

\* sso-auth.ts:210-211 (and 314-315): the lookup finds an entry it may serve.
CacheHit(cache, k, nowMs) ==
    LET cached == CacheGet(cache, k) IN
    cached # NoEntry /\ ~isAccessExpiringSoon(cached, nowMs)

RemoveAt(s, i) == SubSeq(s, 1, i - 1) \o SubSeq(s, i + 1, Len(s))

\* Mutant of OldestIndex: the sort is descending.
NewestIndex(cache) ==
    CHOOSE i \in 1..Len(cache) :
        /\ \A j \in 1..Len(cache) : cache[i].last_used_at >= cache[j].last_used_at
        /\ \A j \in 1..(i - 1) : cache[j].last_used_at < cache[i].last_used_at

\* Index of the entry a stable ascending sort by last_used_at puts first.
OldestIndex(cache) ==
    CHOOSE i \in 1..Len(cache) :
        /\ \A j \in 1..Len(cache) : cache[i].last_used_at <= cache[j].last_used_at
        /\ \A j \in 1..(i - 1) : cache[j].last_used_at > cache[i].last_used_at

\* Deleting the first n entries of the sorted array, one at a time.
RECURSIVE DropOldest(_, _)
DropOldest(cache, n) ==
    IF n = 0 \/ Len(cache) = 0 THEN cache
    ELSE DropOldest(RemoveAt(cache, OldestIndex(cache)), n - 1)

\* Math.max(1, Math.floor(ACCESS_CACHE_MAX * 0.1))
ToDrop == Max2(1, ACCESS_CACHE_MAX \div 10)

\* Mutant of trimAccessCacheIfNeeded: the size test is off by one.
trimAccessCacheLate(cache) ==
    IF Len(cache) <= ACCESS_CACHE_MAX + 1 THEN cache
    ELSE DropOldest(cache, ToDrop)

\* sso-auth.ts:197-206
trimAccessCacheIfNeeded(cache) ==
    IF Len(cache) <= ACCESS_CACHE_MAX THEN cache
    ELSE DropOldest(cache, ToDrop)

(* ------------------------------------------------------------------ *)
(* Requests                                                             *)
(* ------------------------------------------------------------------ *)
\* event.url.pathname, as its segments: <<>> is '/'.
Paths == { <<>>, <<"api", "videos">>, <<"login">> }

\* hooks.server.ts:20 and 48
StartsWithApi(path) == Len(path) >= 2 /\ path[1] = "api"

\* Mutant of isProtected: every path is protected.
isProtectedEverywhere(path) == TRUE

\* hooks.server.ts:20
isProtected(path) == path = <<>> \/ StartsWithApi(path)

\* refresh_expires_in of the provider's answer, in seconds (NULL: absent).
UpstreamExpiresIn == {NULL, TickMs \div 1000}

\* What handle answers with.
Outcome(kind, status, body, cc, returnTo) ==
    [kind |-> kind, status |-> status, body |-> body,
     cacheControl |-> cc, returnTo |-> returnTo]
NoOutcome == Outcome("none", 0, "", "", <<>>)
\* hooks.server.ts:71, the protected handler (or any other route) runs
Resolved == Outcome("resolve", 0, "", "", <<>>)
\* hooks.server.ts:49-55
Unauthorized == Outcome("response", 401, "{\"error\":\"Unauthorized\"}", "no-store", <<>>)
\* hooks.server.ts:58-59
LoginRedirect(path) == Outcome("redirect", 303, "", "", path)
\* an exception other than the redirect leaves handle
Thrown == Outcome("throw", 500, "", "", <<>>)

CookieOp(op, value) == [op |-> op, value |-> value]

VARIABLES
    now,          \* Date.now()
    accessCache,  \* sso-auth.ts:45
    kc,           \* isKeycloakEnabled(): KC_ENDPOINT, KC_REALM, KC_CLIENT_ID all set;
                  \* in SpecVerify the environment and the cached key set
    req,          \* per request slot: the request, where handle is, what it did
    heap          \* module-level and component variables other than the two
                  \* above: postgres.ts, api/videos/+server.ts, the gallery page

vars == <<now, accessCache, kc, req, heap>>

\* Nothing else is allocated.
NoHeap == <<>>

\* A request as handle starts on it (hooks.server.ts:15-20).
NewRequest(path, auth, cookie, nowMs) ==
    [ pc |-> "start", path |-> path, auth |-> auth, cookie |-> cookie,
      bearer |-> NoBearer,        \* the local `bearer` of handle
      t0 |-> nowMs,               \* Date.now() as handle starts: the `now` of
                                  \* getBearerFromEvent / getAccessTokenForRefresh
      user |-> "null",            \* event.locals.user: null, "token", "provider"
      userFrom |-> EmptyRT,       \* the session whose token or provider answer
                                  \* locals.user was built from
      localsBearer |-> NoBearer,  \* event.locals.bearer
      served |-> "none",          \* where the bearer came from
      foundExp |-> NULL,          \* expires_at of the entry getAccessTokenForRefresh found
      verified |-> FALSE,         \* verifyKeycloakAccessToken returned
      verifyFailed |-> FALSE,     \* verifyKeycloakAccessToken threw
      evicted |-> 0,              \* entries the request's trims deleted
      upstream |-> 0,             \* POST /user/refresh calls made
      provided |-> EmptyRT,       \* jwt.refresh_token of the last refresh answer
                                  \* (EmptyRT: the answer carries none)
      providedIn |-> NULL,        \* jwt.refresh_expires_in of that answer
      lookups |-> 0,              \* accessCache.get calls made
      wrote |-> FALSE,            \* the request changed the access cache
      cookieOps |-> <<>>,         \* event.cookies.set / delete, in order
      outcome |-> NoOutcome ]

Idle == [NewRequest(<<"login">>, NoHeader, NoCookie, 0) EXCEPT !.pc = "idle"]

Init ==
    /\ now = TickMs
    /\ accessCache = <<>>
    /\ kc \in BOOLEAN
    /\ req = [p \in Procs |-> Idle]
    /\ heap = NoHeap

\* Mutant of Deny: every denial is the JSON 401.
DenyAlwaysJson(r) ==
    [r EXCEPT !.pc = "done", !.bearer = NoBearer, !.outcome = Unauthorized]

\* hooks.server.ts:46-60
Deny(r) ==
    [r EXCEPT !.pc = "done", !.bearer = NoBearer,
              !.outcome = IF StartsWithApi(r.path) THEN Unauthorized
                          ELSE LoginRedirect(r.path)]

\* hooks.server.ts:71
Resolve(r) == [r EXCEPT !.pc = "done", !.outcome = Resolved]

\* Mutant of AfterBearer: a token whose unverified claims name a user is
\* trusted without asking the verifier.
AfterBearerTrustsClaims(r) ==
    LET token == StripBearer(r.bearer) IN
    IF token.seg # "empty" /\ kc /\ ~userFromAccessToken(token)
    THEN [r EXCEPT !.pc = "verify"]
    ELSE [r EXCEPT !.pc = "user"]

\* hooks.server.ts:26-31, with r.bearer the value getBearerFromEvent returned
\* (a non-empty string): the verifier is awaited, or skipped.
AfterBearer(r) ==
    LET token == StripBearer(r.bearer) IN
    IF token.seg # "empty" /\ kc THEN [r EXCEPT !.pc = "verify"]
    ELSE [r EXCEPT !.pc = "user"]

\* sso-auth.ts:89-115, the session written by event.cookies.set
storeRefresh(r, refreshToken, refreshExpiresIn, nowMs) ==
    LET refreshExpiresAt ==
            IF refreshExpiresIn # NULL /\ refreshExpiresIn > 0
            THEN nowMs + refreshExpiresIn * 1000 ELSE NULL
        value == RefreshCookie(refreshToken, refreshExpiresAt)
    IN [r EXCEPT !.cookieOps = Append(@, CookieOp("set", encodeRefreshCookie(value)))]

\* sso-auth.ts:369-372
clearAuthCookies(r) ==
    [r EXCEPT !.cookieOps = Append(@, CookieOp("delete", NoCookie))]

\* Mutant of CatchBlock: the request is denied but the cookie is kept.
CatchBlockKeepsCookie(r) == Deny(r)

\* hooks.server.ts:32-44, the catch block.  inspectJwt runs before
\* clearAuthCookies; what it throws leaves handle.
CatchBlock(r) ==
    LET maybeToken == IF r.bearer = NoBearer THEN EmptyToken ELSE StripBearer(r.bearer)
        claims == IF maybeToken.seg # "empty" THEN inspectJwt(maybeToken) ELSE "null"
    IN IF claims = "throws"
       THEN [r EXCEPT !.pc = "done", !.outcome = Thrown]
       ELSE Deny(clearAuthCookies(r))

\* hooks.server.ts:15-31 up to the first await that waits: handle resets
\* locals, getBearerFromEvent (sso-auth.ts:296-306) and the synchronous part
\* of getAccessTokenForRefresh (sso-auth.ts:208-216).
HandleStart(p, paths, headers, cookies) ==
    /\ req[p].pc = "idle"
    /\ \E path \in paths, auth \in headers, cookie \in cookies :
        LET r0 == NewRequest(path, auth, cookie, now)
            stored == getStoredRefresh(cookie)
            cached == CacheGet(accessCache, stored.refresh_token)
        IN
        IF ~isProtected(path) THEN
            /\ req' = [req EXCEPT ![p] = Resolve(r0)]
            /\ UNCHANGED accessCache
        ELSE IF auth # NoHeader /\ BearerPattern(auth) THEN
            /\ req' = [req EXCEPT ![p] =
                         AfterBearer([r0 EXCEPT !.bearer = auth, !.served = "header"])]
            /\ UNCHANGED accessCache
        ELSE IF stored = NoSession \/ RefreshExpired(stored, now) THEN
            /\ req' = [req EXCEPT ![p] = Deny(r0)]
            /\ UNCHANGED accessCache
        ELSE IF cached # NoEntry /\ ~isAccessExpiringSoon(cached, now) THEN
            /\ accessCache' = CacheTouch(accessCache, stored.refresh_token, now)
            /\ req' = [req EXCEPT ![p] =
                         AfterBearer([r0 EXCEPT !.bearer = BearerOf(cached.access_token),
                                                !.served = "cache",
                                                !.foundExp = cached.expires_at,
                                                !.lookups = 1, !.wrote = TRUE])]
        ELSE
            /\ req' = [req EXCEPT ![p] =
                         [r0 EXCEPT !.pc = "refreshB", !.foundExp = cached.expires_at,
                                    !.lookups = 1, !.upstream = 1]]
            /\ UNCHANGED accessCache
    /\ UNCHANGED <<now, kc>>
    /\ UNCHANGED heap

\* The refresh awaited by getAccessTokenForRefresh answers: sso-auth.ts:216-229
\* (and 245-278), then hooks.server.ts:26-31; or it throws into the catch
\* block of handle.  The answer carries an access token, refresh_expires_in
\* and possibly a refresh token (the same one, or a new one when the
\* provider rotates); userRefreshWithToken drops the latter (sso-auth.ts:275).
RefreshBearerDone(p, tokens, expiresIn, refreshTokens) ==
    /\ req[p].pc = "refreshB"
    /\ LET r == req[p]
           refreshToken == getStoredRefresh(r.cookie).refresh_token
       IN
       \/ /\ req' = [req EXCEPT ![p] = CatchBlock(r)]
          /\ UNCHANGED accessCache
       \/ \E issued \in tokens, rei \in expiresIn, provided \in refreshTokens :
            LET accessToken == IssuedFor(issued, refreshToken)
                inserted == CacheSet(accessCache, refreshToken, accessToken,
                                     getJwtExpiresAt(accessToken), r.t0)
            IN
            /\ accessCache' = trimAccessCacheIfNeeded(inserted)
            /\ req' = [req EXCEPT ![p] =
                   AfterBearer([storeRefresh(r, refreshToken, rei, now) EXCEPT
                                   !.bearer = BearerOf(accessToken),
                                   !.provided = provided, !.providedIn = rei,
                                   !.served = "refresh", !.wrote = TRUE,
                                   !.evicted = @ + Len(inserted) - Len(accessCache')])]
    /\ UNCHANGED <<now, kc>>
    /\ UNCHANGED heap

\* verifyKeycloakAccessToken answers (part_005:62-83): it returns only for a
\* token whose payload is a JSON object (jwtVerify rejects every other
\* token), and may throw for any token (signature, exp/nbf, audience, key
\* set unreachable).
VerifyDone(p) ==
    /\ req[p].pc = "verify"
    /\ LET r == req[p]
           token == StripBearer(r.bearer)
       IN
       \/ /\ token.seg = "object"
          /\ req' = [req EXCEPT ![p] = [r EXCEPT !.pc = "user", !.verified = TRUE]]
       \/ req' = [req EXCEPT ![p] = CatchBlock([r EXCEPT !.verifyFailed = TRUE])]
    /\ UNCHANGED <<now, accessCache, kc>>
    /\ UNCHANGED heap

\* hooks.server.ts:62-71 with the synchronous part of getUserFromEvent
\* (sso-auth.ts:308-321).
GetUser(p) ==
    /\ req[p].pc = "user"
    /\ LET r == req[p]
           stored == getStoredRefresh(r.cookie)
           cached == CacheGet(accessCache, stored.refresh_token)
       IN
       IF stored = NoSession \/ RefreshExpired(stored, now) THEN
           /\ req' = [req EXCEPT ![p] = Resolve([r EXCEPT !.localsBearer = r.bearer])]
           /\ UNCHANGED accessCache
       ELSE IF cached # NoEntry /\ ~isAccessExpiringSoon(cached, now) THEN
           /\ accessCache' = CacheTouch(accessCache, stored.refresh_token, now)
           /\ req' = [req EXCEPT ![p] =
                 IF userFromAccessToken(cached.access_token)
                 THEN Resolve([r EXCEPT !.user = "token",
                                        !.userFrom = cached.access_token.owner,
                                        !.localsBearer = r.bearer,
                                        !.lookups = @ + 1, !.wrote = TRUE])
                 ELSE [r EXCEPT !.pc = "refreshU", !.lookups = @ + 1,
                                !.wrote = TRUE, !.upstream = @ + 1]]
       ELSE
           /\ req' = [req EXCEPT ![p] =
                 [r EXCEPT !.pc = "refreshU", !.lookups = @ + 1, !.upstream = @ + 1]]
           /\ UNCHANGED accessCache
    /\ UNCHANGED <<now, kc>>
    /\ UNCHANGED heap

\* The refresh awaited by getUserFromEvent answers: sso-auth.ts:321-330, then
\* hooks.server.ts:64-71; when it throws, handle ignores it and line 65 is
\* skipped.
RefreshUserDone(p, tokens, expiresIn, refreshTokens) ==
    /\ req[p].pc = "refreshU"
    /\ LET r == req[p]
           refreshToken == getStoredRefresh(r.cookie).refresh_token
       IN
       \/ /\ req' = [req EXCEPT ![p] = Resolve(r)]
          /\ UNCHANGED accessCache
       \/ \E issued \in tokens, rei \in expiresIn, provided \in refreshTokens :
            LET accessToken == IssuedFor(issued, refreshToken)
                inserted == CacheSet(accessCache, refreshToken, accessToken,
                                     getJwtExpiresAt(accessToken), now)
            IN
            /\ accessCache' = trimAccessCacheIfNeeded(inserted)
            /\ req' = [req EXCEPT ![p] =
                   Resolve([storeRefresh(r, refreshToken, rei, now) EXCEPT
                               !.user = "provider", !.userFrom = accessToken.owner,
                               !.provided = provided, !.providedIn = rei,
                               !.localsBearer = r.bearer,
                               !.wrote = TRUE,
                               !.evicted = @ + Len(inserted) - Len(accessCache')])]
    /\ UNCHANGED <<now, kc>>
    /\ UNCHANGED heap

\* The response has been sent (or the exception reported): the slot is free
\* for the next request.
Finish(p) ==
    /\ req[p].pc = "done"
    /\ req' = [req EXCEPT ![p] = Idle]
    /\ UNCHANGED <<now, accessCache, kc>>
    /\ UNCHANGED heap

\* Time passes.
Tick ==
    /\ now < MaxTick * TickMs
    /\ now' = now + TickMs
    /\ UNCHANGED <<accessCache, kc, req>>
    /\ UNCHANGED heap

\* One request after the other, with every kind of request.
Next ==
    \/ HandleStart(1, Paths, Headers, Cookies)
    \/ RefreshBearerDone(1, UpstreamTokens, UpstreamExpiresIn, {EmptyRT})
    \/ VerifyDone(1)
    \/ GetUser(1)
    \/ RefreshUserDone(1, UpstreamTokens, UpstreamExpiresIn, {EmptyRT})
    \/ Finish(1)
    \/ Tick

Spec == Init /\ [][Next]_vars

\* What the code itself guarantees to happen: its synchronous steps run, and
\* the verifier's await ends, because jose's remote key set aborts its fetch
\* after its default timeout and jwtVerify then throws.  The refresh call is
\* different: authFetch (sso-auth.ts:245-262) passes no AbortSignal and sets
\* no timer, so nothing in the code ends the await of fetch or of res.text();
\* the two refresh answers are left without fairness.
SpecLive ==
    /\ Init /\ [][Next]_vars
    /\ WF_vars(VerifyDone(1))
    /\ WF_vars(GetUser(1))
    /\ WF_vars(Finish(1))

\* One request after the other against a provider whose refresh answers may
\* carry a refresh token: none, the one presented, or a rotated one.
ProvidedRefreshTokens == {EmptyRT} \cup RefreshTokens
RotateExpiresIn == UpstreamExpiresIn \cup {0}

NextRotate ==
    \/ HandleStart(1, Paths, Headers, Cookies)
    \/ RefreshBearerDone(1, UpstreamTokens, RotateExpiresIn, ProvidedRefreshTokens)
    \/ VerifyDone(1)
    \/ GetUser(1)
    \/ RefreshUserDone(1, UpstreamTokens, RotateExpiresIn, ProvidedRefreshTokens)
    \/ Finish(1)
    \/ Tick

SpecRotate == Init /\ [][NextRotate]_vars

\* Concurrent requests: every slot runs cookie-authenticated API requests,
\* interleaved at their awaits.  The verifier is not configured: its await
\* touches nothing the requests share.
RacePaths == { <<"api", "videos">> }
RaceCookies == { encodeRefreshCookie(RefreshCookie(rt, NULL)) : rt \in RefreshTokens }

RaceTokens == { Jwt("object", FreshExp, TRUE), Jwt("object", NoExp, TRUE) }

InitRace == Init /\ kc = FALSE

NextRace ==
    \/ \E p \in Procs : HandleStart(p, RacePaths, {NoHeader}, RaceCookies)
    \/ \E p \in Procs : RefreshBearerDone(p, RaceTokens, {NULL}, {EmptyRT})
    \/ \E p \in Procs : GetUser(p)
    \/ \E p \in Procs : RefreshUserDone(p, RaceTokens, {NULL}, {EmptyRT})
    \/ \E p \in Procs : Finish(p)
    \/ Tick

SpecRace == InitRace /\ [][NextRace]_vars

\* Two concurrent requests of one session (slots 1 and 2, one request each)
\* while the requests of the other sessions keep arriving (slot 3).
Trio == {1, 2, 3}
SameSession == { encodeRefreshCookie(RefreshCookie(1, NULL)) }
OtherSessions ==
    { encodeRefreshCookie(RefreshCookie(rt, NULL)) : rt \in RefreshTokens \ {1} }

\* What the provider answers to the other sessions.
OtherTokens == { Jwt("object", FreshExp, TRUE) }

InitTrio ==
    /\ now = TickMs
    /\ accessCache = <<>>
    /\ kc = FALSE
    /\ req = [p \in Trio |-> Idle]
    /\ heap = NoHeap

NextTrio ==
    \/ \E p \in {1, 2} : HandleStart(p, RacePaths, {NoHeader}, SameSession)
    \/ HandleStart(3, RacePaths, {NoHeader}, OtherSessions)
    \/ \E p \in {1, 2} : RefreshBearerDone(p, RaceTokens, {NULL}, {EmptyRT})
    \/ RefreshBearerDone(3, OtherTokens, {NULL}, {EmptyRT})
    \/ \E p \in Trio : GetUser(p)
    \/ \E p \in {1, 2} : RefreshUserDone(p, RaceTokens, {NULL}, {EmptyRT})
    \/ RefreshUserDone(3, OtherTokens, {NULL}, {EmptyRT})
    \/ Finish(3)
    \/ Tick

SpecTrio == InitTrio /\ [][NextTrio]_vars

\* Pairs of runs of handle: two slots whose requests differ in what the
\* bearer token's payload decodes to, with and without the verifier.
PairTokens ==
    { Jwt("object", FreshExp, TRUE), Jwt("object", NoExp, FALSE), PrimToken,
      Jwt("falsy", NoExp, FALSE) }
PairHeaders ==
    { NoHeader, Str("Bearer", 2, EmptyToken) }
    \cup { Str("Bearer", 1, t) : t \in PairTokens }
PairPaths == { <<>>, <<"api", "videos">> }
PairCookies == { NoCookie, encodeRefreshCookie(RefreshCookie(1, NULL)) }

NextPair ==
    \/ \E p \in Procs : HandleStart(p, PairPaths, PairHeaders, PairCookies)
    \/ \E p \in Procs : RefreshBearerDone(p, UpstreamTokens, {NULL}, {EmptyRT})
    \/ \E p \in Procs : VerifyDone(p)
    \/ \E p \in Procs : GetUser(p)
    \/ \E p \in Procs : RefreshUserDone(p, UpstreamTokens, {NULL}, {EmptyRT})
    \/ \E p \in Procs : Finish(p)

SpecPair == Init /\ [][NextPair]_vars

(* ------------------------------------------------------------------ *)
(* The login form action (src/routes/login/+page.server.ts).  A string  *)
(* that the action inspects is a sequence of characters.                *)
(* ------------------------------------------------------------------ *)
Chars == {"/", "\\", "a", " "}
Texts == UNION { [1..n -> Chars] : n \in 0..MaxLen }

\* String.prototype.trim on the model's alphabet: the space is its only
\* white space character.
RECURSIVE TrimStart(_)
TrimStart(s) == IF s # <<>> /\ Head(s) = " " THEN TrimStart(Tail(s)) ELSE s
RECURSIVE TrimEnd(_)
TrimEnd(s) ==
    IF s # <<>> /\ s[Len(s)] = " " THEN TrimEnd(SubSeq(s, 1, Len(s) - 1)) ELSE s
Trim(s) == TrimEnd(TrimStart(s))

startsWith(s, c) == Len(s) >= 1 /\ s[1] = c

\* +page.server.ts (part_006:86-88); an absent field or parameter is ''.
returnToFromBody(body) == Trim(body)
returnTo(body, query) ==
    IF returnToFromBody(body) # <<>> THEN returnToFromBody(body)
    ELSE IF query # <<>> THEN query
    ELSE <<"/">>
\* part_006:90
safeReturnTo(body, query) ==
    IF startsWith(returnTo(body, query), "/") THEN returnTo(body, query) ELSE <<"/">>

Fail(status) == [kind |-> "fail", status |-> status, location |-> <<>>]
Redirect(status, location) ==
    [kind |-> "redirect", status |-> status, location |-> location]

LoginIdle ==
    [pc |-> "idle", body |-> <<>>, query |-> <<>>, cookieOps |-> <<>>,
     outcome |-> NoOutcome]

\* What POST /user/login can answer (sso-auth.ts:337-343, 245-262): an error
\* status, no answer at all (fetch rejects), credentials without a refresh
\* token, or credentials with one.
LoginAnswers == {"401", "500", "network", "noRefresh", "ok"}

InitLogin ==
    /\ now = TickMs
    /\ accessCache = <<>>
    /\ kc = FALSE
    /\ req = [p \in {1} |-> LoginIdle]
    /\ heap = NoHeap

\* part_006:69-75: the form is read; without a username or a password the
\* action fails with 400 before any upstream call.
LoginSubmit(p) ==
    /\ req[p].pc = "idle"
    /\ \E body \in Texts, query \in Texts, complete \in BOOLEAN :
          req' = [req EXCEPT ![p] =
                    IF complete
                    THEN [LoginIdle EXCEPT !.pc = "login", !.body = body,
                                           !.query = query]
                    ELSE [LoginIdle EXCEPT !.pc = "done", !.body = body,
                                           !.query = query,
                                           !.outcome = Fail(400)]]
    /\ UNCHANGED <<now, accessCache, kc>>
    /\ UNCHANGED heap

\* part_006:77-91: loginFromEvent has answered.
LoginDone(p) ==
    /\ req[p].pc = "login"
    /\ \E answer \in LoginAnswers, refresh \in RefreshTokens,
          rei \in UpstreamExpiresIn :
          LET r == req[p] IN
          req' = [req EXCEPT ![p] =
                    CASE answer = "401" -> [r EXCEPT !.pc = "done", !.outcome = Fail(401)]
                      [] answer = "500" -> [r EXCEPT !.pc = "done", !.outcome = Fail(500)]
                      [] answer = "network" -> [r EXCEPT !.pc = "done", !.outcome = Fail(500)]
                      [] answer = "noRefresh" -> [r EXCEPT !.pc = "done", !.outcome = Fail(502)]
                      [] OTHER ->
                           [storeRefresh(r, refresh, rei, now) EXCEPT
                               !.pc = "done",
                               !.outcome = Redirect(303, safeReturnTo(r.body, r.query))]]
    /\ UNCHANGED <<now, accessCache, kc>>
    /\ UNCHANGED heap

\* The response has been sent.
LoginFinish(p) ==
    /\ req[p].pc = "done"
    /\ req' = [req EXCEPT ![p] = LoginIdle]
    /\ UNCHANGED <<now, accessCache, kc>>
    /\ UNCHANGED heap

NextLogin ==
    \/ LoginSubmit(1)
    \/ LoginDone(1)
    \/ LoginFinish(1)

SpecLogin == InitLogin /\ [][NextLogin]_vars

(* ------------------------------------------------------------------ *)
(* bearerForApi: which of the provider's tokens is presented to the     *)
(* API.  Here a token is modelled by what tokenHasAudience reads: what   *)
(* its payload decodes to (seg, as above; "absent" is null/undefined)    *)
(* and its aud claim.                                                    *)
(* ------------------------------------------------------------------ *)
expectedAudiences == <<"psysloptv", "api.slopindustries.com">>
Audiences == {"psysloptv", "api.slopindustries.com", "account"}

\* The aud claim: absent, a string, a list of strings, or something else.
Aud(kind, values) == [kind |-> kind, values |-> values]
NoAud == Aud("none", {})
AudClaims ==
    {NoAud, Aud("number", {})}
    \cup { Aud("string", {a}) : a \in Audiences }
    \cup { Aud("list", S) : S \in SUBSET Audiences }

AudToken(name, seg, aud) == [name |-> name, seg |-> seg, aud |-> aud]
AccessTokens ==
    { AudToken("access", "object", aud) : aud \in AudClaims }
    \cup { AudToken("access", seg, NoAud) : seg \in {"malformed", "prim"} }
IdTokens ==
    { AudToken("id", "object", aud) : aud \in AudClaims }
    \cup { AudToken("id", seg, NoAud) : seg \in {"absent", "malformed"} }

\* creds.jwt of UserCredentials (sso-auth.ts:12-21).
Creds(access, idToken) == [access_token |-> access, id_token |-> idToken]

\* sso-auth.ts:231-239 and hit-metrics.ts:160-168 (the same text).
tokenHasAudience(token, expected) ==
    IF token.seg \in {"absent", "empty"} THEN FALSE
    ELSE IF token.seg \in {"malformed", "falsy"} THEN FALSE
    ELSE IF token.seg # "object" THEN FALSE
    ELSE IF token.aud.kind = "string" THEN token.aud.values = {expected}
    ELSE IF token.aud.kind = "list" THEN expected \in token.aud.values
    ELSE FALSE

\* sso-auth.ts:241-243, the function of the module every route imports.
bearerForApi(creds) == Str("Bearer", 1, creds.access_token)

\* hit-metrics.ts:170-181: the loop over expectedAudiences from index i.
RECURSIVE bearerForApiFrom(_, _)
bearerForApiFrom(creds, i) ==
    IF i > Len(expectedAudiences) THEN Str("Bearer", 1, creds.access_token)
    ELSE IF tokenHasAudience(creds.access_token, expectedAudiences[i])
         THEN Str("Bearer", 1, creds.access_token)
    ELSE IF tokenHasAudience(creds.id_token, expectedAudiences[i])
         THEN Str("Bearer", 1, creds.id_token)
    ELSE bearerForApiFrom(creds, i + 1)
bearerForApiProbing(creds) == bearerForApiFrom(creds, 1)

BearerIdle ==
    [pc |-> "idle", creds |-> Creds(AudToken("access", "malformed", NoAud),
                                    AudToken("id", "absent", NoAud)),
     via |-> "none", bearer |-> NoBearer]

InitBearer ==
    /\ now = TickMs
    /\ accessCache = <<>>
    /\ kc = FALSE
    /\ req = [p \in {1} |-> BearerIdle]
    /\ heap = NoHeap

\* The provider has answered a refresh with credentials (sso-auth.ts:264-278).
Refreshed(p) ==
    /\ req[p].pc = "idle"
    /\ \E access \in AccessTokens, idToken \in IdTokens :
          req' = [req EXCEPT ![p] =
                    [BearerIdle EXCEPT !.pc = "creds",
                                       !.creds = Creds(access, idToken)]]
    /\ UNCHANGED <<now, accessCache, kc>>
    /\ UNCHANGED heap

\* sso-auth.ts:241-243
BearerForApi(p) ==
    /\ req[p].pc = "creds"
    /\ req' = [req EXCEPT ![p].pc = "done", ![p].via = "sso-auth",
                          ![p].bearer = bearerForApi(req[p].creds)]
    /\ UNCHANGED <<now, accessCache, kc>>
    /\ UNCHANGED heap

\* hit-metrics.ts:170-181, called at hit-metrics.ts:244
BearerForApiProbing(p) ==
    /\ req[p].pc = "creds"
    /\ req' = [req EXCEPT ![p].pc = "done", ![p].via = "hit-metrics",
                          ![p].bearer = bearerForApiProbing(req[p].creds)]
    /\ UNCHANGED <<now, accessCache, kc>>
    /\ UNCHANGED heap

\* The bearer has been handed to the caller.
BearerFinish(p) ==
    /\ req[p].pc = "done"
    /\ req' = [req EXCEPT ![p] = BearerIdle]
    /\ UNCHANGED <<now, accessCache, kc>>
    /\ UNCHANGED heap

NextBearer ==
    \/ Refreshed(1)
    \/ BearerForApi(1)
    \/ BearerForApiProbing(1)
    \/ BearerFinish(1)

SpecBearer == InitBearer /\ [][NextBearer]_vars

(* ------------------------------------------------------------------ *)
(* The cookie codec on text (sso-auth.ts:47-80, hit-metrics.ts:105-107). *)
(* A JavaScript string is a sequence of code points, a Buffer a sequence *)
(* of bytes, and a base64 text a sequence of characters: 0..63 are the   *)
(* characters of the standard alphabet A-Z a-z 0-9 + /, then come the    *)
(* characters below.                                                     *)
(* ------------------------------------------------------------------ *)
Plus == 62                       \* '+'
Slash == 63                      \* '/'
Minus == 64                      \* '-' (base64url for 62)
Underscore == 65                 \* '_' (base64url for 63)
Pad == 66                        \* '='
Percent == 67                    \* '%'
Replacement == 65533             \* U+FFFD

\* The null of the text codec: no session.
NoText == [refresh_token |-> <<>>, refresh_expires_at |-> NULL]

Pow2(n) == IF n = 0 THEN 1 ELSE IF n = 2 THEN 4 ELSE IF n = 4 THEN 16
           ELSE IF n = 6 THEN 64 ELSE IF n = 8 THEN 256 ELSE 1024

\* Buffer.from(str, 'utf8') for code points below U+10000.
Utf8(cp) ==
    IF cp < 128 THEN <<cp>>
    ELSE IF cp < 2048 THEN <<192 + cp \div 64, 128 + (cp % 64)>>
    ELSE <<224 + cp \div 4096, 128 + ((cp \div 64) % 64), 128 + (cp % 64)>>
RECURSIVE Utf8Encode(_)
Utf8Encode(s) == IF s = <<>> THEN <<>> ELSE Utf8(Head(s)) \o Utf8Encode(Tail(s))

\* buf.toString('utf8'): well-formed sequences decode to their code point,
\* every other byte to U+FFFD.
IsCont(b) == b >= 128 /\ b < 192
\* The length of the run of ASCII bytes a byte sequence starts with.
AsciiRun(b) ==
    LET others == { i \in 1..Len(b) : b[i] >= 128 } IN
    IF others = {} THEN Len(b)
    ELSE (CHOOSE i \in others : \A j \in others : i <= j) - 1
RECURSIVE Utf8Decode(_)
Utf8Decode(b) ==
    IF b = <<>> THEN <<>>
    ELSE LET n == Len(b)
             b1 == b[1]
             run == AsciiRun(b)
         IN
         IF b1 < 128 THEN SubSeq(b, 1, run) \o Utf8Decode(SubSeq(b, run + 1, n))
         ELSE IF b1 >= 194 /\ b1 < 224 /\ n >= 2 /\ IsCont(b[2])
         THEN <<(b1 - 192) * 64 + (b[2] - 128)>> \o Utf8Decode(SubSeq(b, 3, n))
         ELSE IF /\ b1 >= 224 /\ b1 < 240 /\ n >= 3 /\ IsCont(b[2]) /\ IsCont(b[3])
                 /\ (b1 # 224 \/ b[2] >= 160) /\ (b1 # 237 \/ b[2] < 160)
         THEN <<(b1 - 224) * 4096 + (b[2] - 128) * 64 + (b[3] - 128)>>
              \o Utf8Decode(SubSeq(b, 4, n))
         ELSE IF /\ b1 >= 240 /\ b1 < 245 /\ n >= 4
                 /\ IsCont(b[2]) /\ IsCont(b[3]) /\ IsCont(b[4])
                 /\ (b1 # 240 \/ b[2] >= 144) /\ (b1 # 244 \/ b[2] < 144)
         THEN <<(b1 - 240) * 262144 + (b[2] - 128) * 4096
                + (b[3] - 128) * 64 + (b[4] - 128)>>
              \o Utf8Decode(SubSeq(b, 5, n))
         ELSE <<Replacement>> \o Utf8Decode(Tail(b))

\* The k-th group of six bits of a byte sequence (zero bits after its end).
Sextet(bytes, k) ==
    LET bit0 == 6 * (k - 1)
        i == bit0 \div 8 + 1
        off == bit0 % 8
        lo == IF i + 1 <= Len(bytes) THEN bytes[i + 1] ELSE 0
    IN ((bytes[i] * 256 + lo) \div Pow2(10 - off)) % 64

\* buf.toString('base64'): padded to a multiple of four characters.
toBase64(bytes) ==
    LET n == Len(bytes)
        m == (n * 8 + 5) \div 6
    IN [k \in 1..(((n + 2) \div 3) * 4) |-> IF k <= m THEN Sextet(bytes, k) ELSE Pad]

\* buf.toString('base64url'): '-' and '_' for '+' and '/', no padding.
toBase64Url(bytes) ==
    [k \in 1..((Len(bytes) * 8 + 5) \div 6) |->
        LET x == Sextet(bytes, k) IN
        IF x = Plus THEN Minus ELSE IF x = Slash THEN Underscore ELSE x]

\* encodeURIComponent on a base64 text: letters and digits stay, '+', '/'
\* and '=' become %2B, %2F and %3D.
\* The length of the run of characters other than those of cs that a text
\* starts with.
RunWithout(text, cs) ==
    LET hits == { i \in 1..Len(text) : text[i] \in cs } IN
    IF hits = {} THEN Len(text)
    ELSE (CHOOSE i \in hits : \A j \in hits : i <= j) - 1
RECURSIVE encodeURIComponent(_)
encodeURIComponent(text) ==
    LET run == RunWithout(text, {Plus, Slash, Pad}) IN
    IF run = Len(text) THEN text
    ELSE SubSeq(text, 1, run)
         \o (CASE text[run + 1] = Plus -> <<Percent, 54, 1>>
                [] text[run + 1] = Slash -> <<Percent, 54, 5>>
                [] OTHER -> <<Percent, 55, 3>>)
         \o encodeURIComponent(SubSeq(text, run + 2, Len(text)))

\* decodeURIComponent on such a text; Throws (no text: -1 is no character)
\* stands for the URIError of an escape that is none of %2B, %2F, %3D.
Throws == <<0 - 1>>
RECURSIVE decodeURIComponent(_)
decodeURIComponent(text) ==
    LET run == RunWithout(text, {Percent}) IN
    IF run = Len(text) THEN text
    ELSE IF Len(text) < run + 3 THEN Throws
    ELSE LET hex == <<text[run + 2], text[run + 3]>>
             c == CASE hex = <<54, 1>> -> Plus
                    [] hex = <<54, 5>> -> Slash
                    [] hex = <<55, 3>> -> Pad
                    [] OTHER -> Percent
             rest == decodeURIComponent(SubSeq(text, run + 4, Len(text)))
         IN IF c = Percent \/ rest = Throws THEN Throws
            ELSE SubSeq(text, 1, run) \o <<c>> \o rest

\* Buffer.from(text, 'base64') and Buffer.from(text, 'base64url'): Node
\* decodes both alphabets under either name, skips every character that is
\* in neither, stops at the first '=', and never throws.
IsBase64Char(c) == c <= Underscore
BeforePad(text) ==
    LET pads == { i \in 1..Len(text) : text[i] = Pad } IN
    IF pads = {} THEN text
    ELSE SubSeq(text, 1, (CHOOSE i \in pads : \A j \in pads : i <= j) - 1)
\* The bytes that a sequence of six-bit values spells; bits that do not
\* fill a byte are dropped.
BytesOf(sx) ==
    [j \in 1..((Len(sx) * 6) \div 8) |->
        LET bit0 == 8 * (j - 1)
            k == bit0 \div 6 + 1
            off == bit0 % 6
        IN ((sx[k] * 64 + sx[k + 1]) \div Pow2(4 - off)) % 256]
\* Mutant of fromBase64: only the standard alphabet is decoded, '-' and '_'
\* are skipped like any other character.
IsStandardChar(c) == c <= Slash
fromBase64StandardOnly(text) == BytesOf(SelectSeq(BeforePad(text), IsStandardChar))
fromBase64(text) ==
    LET chars == SelectSeq(BeforePad(text), IsBase64Char) IN
    BytesOf([k \in 1..Len(chars) |->
               IF chars[k] = Minus THEN Plus
               ELSE IF chars[k] = Underscore THEN Slash ELSE chars[k]])

\* The texts JSON.stringify writes around the two fields of a RefreshCookie:
\*   {"refresh_token":"   ","refresh_expires_at":   null   }
JsonOpen == <<123, 34, 114, 101, 102, 114, 101, 115, 104, 95, 116, 111, 107,
              101, 110, 34, 58, 34>>
JsonMid == <<34, 44, 34, 114, 101, 102, 114, 101, 115, 104, 95, 101, 120, 112,
             105, 114, 101, 115, 95, 97, 116, 34, 58>>
JsonNull == <<110, 117, 108, 108>>
JsonClose == <<125>>
Quote == 34
Backslash == 92

RECURSIVE Digits(_)
Digits(n) == IF n < 10 THEN <<48 + n>> ELSE Digits(n \div 10) \o <<48 + (n % 10)>>
RECURSIVE NumberOf(_)
NumberOf(ds) ==
    IF Len(ds) = 1 THEN ds[1] - 48
    ELSE NumberOf(SubSeq(ds, 1, Len(ds) - 1)) * 10 + (ds[Len(ds)] - 48)
IsNumberText(ds) ==
    /\ ds # <<>>
    /\ \A i \in 1..Len(ds) : ds[i] >= 48 /\ ds[i] <= 57
    /\ (Len(ds) > 1 => ds[1] # 48)

\* Buffer.from(JSON.stringify(value), 'utf8') for a RefreshCookie whose
\* refresh_token has no character that JSON escapes (sso-auth.ts:57).
JsonStringify(value) ==
    JsonOpen \o Utf8Encode(value.refresh_token) \o JsonMid
    \o (IF value.refresh_expires_at = NULL THEN JsonNull
        ELSE Digits(value.refresh_expires_at)) \o JsonClose

\* safeJsonParse (sso-auth.ts:47-53) on a text of that form: the string ends
\* at the first quote, may hold any character but a control character, a
\* quote or a backslash, and the expiry is null or an unsigned integer.  A
\* text of any other form is taken not to parse (NoText, the null).
safeJsonParse(text) ==
    LET n == Len(text)
        o == Len(JsonOpen)
        quotes == { i \in (o + 1)..n : text[i] = Quote }
        q == CHOOSE i \in quotes : \A j \in quotes : i <= j
        token == SubSeq(text, o + 1, q - 1)
        vFrom == q + Len(JsonMid)
        v == SubSeq(text, vFrom, n - 1)
    IN
    IF n <= o \/ SubSeq(text, 1, o) # JsonOpen \/ quotes = {} THEN NoText
    ELSE IF \E i \in 1..Len(token) : token[i] < 32 \/ token[i] = Backslash
    THEN NoText
    ELSE IF n < vFrom \/ SubSeq(text, q, vFrom - 1) # JsonMid \/ text[n] # 125
    THEN NoText
    ELSE IF v = JsonNull THEN RefreshCookie(token, NULL)
    ELSE IF IsNumberText(v) THEN RefreshCookie(token, NumberOf(v))
    ELSE NoText

\* `decoded?.refresh_token` is truthy.
HasRefreshToken(decoded) == decoded.refresh_token # <<>>

\* sso-auth.ts:55-58
encodeRefreshCookieText(value) == toBase64Url(JsonStringify(value))

\* hit-metrics.ts:105-107, the encoder of the earlier release
encodeRefreshCookieLegacy(value) ==
    encodeURIComponent(toBase64(JsonStringify(value)))

\* sso-auth.ts:60-80
decodeRefreshCookieText(raw) ==
    LET first == safeJsonParse(Utf8Decode(fromBase64(raw)))
        unescaped == decodeURIComponent(raw)
        second == IF unescaped = Throws THEN NoText
                  ELSE safeJsonParse(Utf8Decode(fromBase64(unescaped)))
    IN IF HasRefreshToken(first) THEN first
       ELSE IF HasRefreshToken(second) THEN second
       ELSE NoText

\* Refresh tokens as strings, built from pieces: letters, '~' and '?' (whose
\* bytes give '+' and '/' in base64), and U+3FC2 (bytes E3 BF 82).
TokenPieces ==
    { <<97>>, <<126>>, <<63>>, <<97, 97>>, <<97, 97, 126>>,
      <<99, 16322, 122, 126>> }
RECURSIVE Concat(_)
Concat(ss) == IF ss = <<>> THEN <<>> ELSE Head(ss) \o Concat(Tail(ss))
TokenTexts ==
    { Concat(ps) : ps \in UNION { [1..n -> TokenPieces] : n \in 1..MaxPieces } }
Sessions ==
    { RefreshCookie(t, x) : t \in TokenTexts, x \in CookieExpiries }

CodecIdle ==
    [pc |-> "idle", session |-> NoText, scheme |-> "none", raw |-> <<>>,
     decoded |-> NoText]

InitCodec ==
    /\ now = TickMs
    /\ accessCache = <<>>
    /\ kc = FALSE
    /\ req = [p \in {1} |-> CodecIdle]
    /\ heap = NoHeap

\* A release of the server writes the cookie for a session: the current one
\* (storeRefresh, sso-auth.ts:101-108) or the earlier one.
WriteCookie(p) ==
    /\ req[p].pc = "idle"
    /\ \E s \in Sessions, scheme \in {"base64url", "legacy"} :
          req' = [req EXCEPT ![p] =
                    [CodecIdle EXCEPT
                        !.pc = "written", !.session = s, !.scheme = scheme,
                        !.raw = IF scheme = "legacy"
                                THEN encodeRefreshCookieLegacy(s)
                                ELSE encodeRefreshCookieText(s)]]
    /\ UNCHANGED <<now, accessCache, kc>>
    /\ UNCHANGED heap

\* A later request brings the cookie back: getStoredRefresh (sso-auth.ts:83-87).
ReadCookie(p) ==
    /\ req[p].pc = "written"
    /\ req' = [req EXCEPT ![p].pc = "read",
                          ![p].decoded = decodeRefreshCookieText(req[p].raw)]
    /\ UNCHANGED <<now, accessCache, kc>>
    /\ UNCHANGED heap

CodecFinish(p) ==
    /\ req[p].pc = "read"
    /\ req' = [req EXCEPT ![p] = CodecIdle]
    /\ UNCHANGED <<now, accessCache, kc>>
    /\ UNCHANGED heap

NextCodec ==
    \/ WriteCookie(1)
    \/ ReadCookie(1)
    \/ CodecFinish(1)

SpecCodec == InitCodec /\ [][NextCodec]_vars

(* ------------------------------------------------------------------ *)
(* storeRefresh: the attributes of the cookie (sso-auth.ts:89-115).      *)
(* The x-forwarded-proto header is absent or a comma-separated list of   *)
(* values, each a sequence of words and spaces.                          *)
(* ------------------------------------------------------------------ *)
Forwarded(values) == [present |-> TRUE, values |-> values]
NoForwarded == [present |-> FALSE, values |-> <<>>]
ProtoValues == { <<>>, <<"https">>, <<"http">>, <<" ", "https">>, <<"HTTPS">> }
ForwardedProtos ==
    {NoForwarded}
    \cup { Forwarded(<<v>>) : v \in ProtoValues }
    \cup { Forwarded(<<v, w>>) :
              v \in {<<"https">>, <<"http">>, <<>>}, w \in {<<"https">>, <<"http">>} }
Protocols == {"https:", "http:"}

\* sso-auth.ts:90-92
isSecure(forwardedProto, protocol) ==
    LET forwarded == IF forwardedProto.present /\ forwardedProto.values # <<<<>>>>
                     THEN Trim(forwardedProto.values[1]) ELSE <<>>
    IN IF forwarded # <<>> THEN forwarded = <<"https">> ELSE protocol = "https:"

\* sso-auth.ts:93-94
refreshExpiresAtOf(refreshExpiresIn, nowMs) ==
    IF refreshExpiresIn # NULL /\ refreshExpiresIn > 0
    THEN nowMs + refreshExpiresIn * 1000 ELSE NULL

\* sso-auth.ts:108-114; expires NULL: the attribute is absent.
cookieOptions(forwardedProto, protocol, refreshExpiresIn, nowMs) ==
    [path |-> "/", sameSite |-> "lax", httpOnly |-> FALSE,
     secure |-> isSecure(forwardedProto, protocol),
     expires |-> refreshExpiresAtOf(refreshExpiresIn, nowMs)]

StoreIdle ==
    [pc |-> "idle", forwardedProto |-> NoForwarded, protocol |-> "http:",
     refreshExpiresIn |-> NULL, cookieOps |-> <<>>, options |-> <<>>]

InitStore ==
    /\ now = TickMs
    /\ accessCache = <<>>
    /\ kc = FALSE
    /\ req = [p \in {1} |-> StoreIdle]
    /\ heap = NoHeap

\* A request arrives and the provider answers its refresh or login with
\* refresh_expires_in (sso-auth.ts:216, 321, 337).
Answered(p) ==
    /\ req[p].pc = "idle"
    /\ \E f \in ForwardedProtos, proto \in Protocols, rei \in RotateExpiresIn :
          req' = [req EXCEPT ![p] =
                    [StoreIdle EXCEPT !.pc = "answered", !.forwardedProto = f,
                                      !.protocol = proto, !.refreshExpiresIn = rei]]
    /\ UNCHANGED <<now, accessCache, kc>>
    /\ UNCHANGED heap

\* sso-auth.ts:89-115
StoreRefresh(p) ==
    /\ req[p].pc = "answered"
    /\ \E refreshToken \in RefreshTokens :
          LET r == req[p] IN
          req' = [req EXCEPT ![p] =
                    [storeRefresh(r, refreshToken, r.refreshExpiresIn, now) EXCEPT
                        !.pc = "stored",
                        !.options = <<cookieOptions(r.forwardedProto, r.protocol,
                                                    r.refreshExpiresIn, now)>>]]
    /\ UNCHANGED <<now, accessCache, kc>>
    /\ UNCHANGED heap

\* The response with the Set-Cookie header has been sent.
StoreFinish(p) ==
    /\ req[p].pc = "stored"
    /\ req' = [req EXCEPT ![p] = StoreIdle]
    /\ UNCHANGED <<now, accessCache, kc>>
    /\ UNCHANGED heap

NextStore ==
    \/ Answered(1)
    \/ StoreRefresh(1)
    \/ StoreFinish(1)
    \/ Tick

SpecStore == InitStore /\ [][NextStore]_vars

(* ------------------------------------------------------------------ *)
(* The verifier module (src/lib/server/keycloak.ts).  A setting is a     *)
(* string, modelled as the sequence of its parts; in the specification   *)
(* of this module the variable kc holds the module's state: the          *)
(* environment it reads and its cached key set.                          *)
(* ------------------------------------------------------------------ *)
Endpoints ==
    { <<>>, <<"https://kc">>, <<"https://kc", "/">>,
      <<"https://kc", "/realms/", "a">>, <<"kc">> }
Realms == { <<" ">>, <<"a">>, <<"b">> }
ClientIds == { <<>>, <<" ", "web">>, <<"other">> }
Env(endpoint, realm, clientId) ==
    [KC_ENDPOINT |-> endpoint, KC_REALM |-> realm, KC_CLIENT_ID |-> clientId]
Envs == { Env(e, r, c) : e \in Endpoints, r \in Realms, c \in ClientIds }

\* part_005:10, value.replace(/\/+$/, '')
RECURSIVE normalizeEndpoint(_)
normalizeEndpoint(value) ==
    IF value # <<>> /\ value[Len(value)] = "/"
    THEN normalizeEndpoint(SubSeq(value, 1, Len(value) - 1)) ELSE value

\* part_005:13, /\/realms\//.test(value)
looksLikeRealmIssuer(value) == \E i \in 1..Len(value) : value[i] = "/realms/"

\* new URL(text) accepts an absolute URL and throws TypeError otherwise.
IsAbsoluteUrl(text) == text # <<>> /\ text[1] = "https://kc"

KeycloakConfig(kind, issuer, expectedClientId, jwksUrl) ==
    [kind |-> kind, issuer |-> issuer, expectedClientId |-> expectedClientId,
     jwksUrl |-> jwksUrl]
NoConfig == KeycloakConfig("null", <<>>, <<>>, <<>>)
ConfigThrows == KeycloakConfig("throws", <<>>, <<>>, <<>>)

\* part_005:15-32 (realm names here need no percent-encoding)
getKeycloakConfig(env) ==
    LET endpoint == Trim(env.KC_ENDPOINT)
        realm == Trim(env.KC_REALM)
        clientId == Trim(env.KC_CLIENT_ID)
        normalized == normalizeEndpoint(endpoint)
        issuer == IF looksLikeRealmIssuer(normalized) THEN normalized
                  ELSE normalized \o <<"/realms/">> \o realm
    IN IF endpoint = <<>> \/ realm = <<>> \/ clientId = <<>> THEN NoConfig
       ELSE IF ~IsAbsoluteUrl(issuer) THEN ConfigThrows
       ELSE KeycloakConfig("config", issuer, clientId,
                           issuer \o <<"/protocol/openid-connect/certs">>)

\* part_005:60; "true", "false", or "throws" when getKeycloakConfig throws
isKeycloakEnabled(env) ==
    LET config == getKeycloakConfig(env) IN
    IF config = ConfigThrows THEN "throws"
    ELSE IF config = NoConfig THEN "false" ELSE "true"

\* part_005:34-40 and createRemoteJWKSet(config.jwksUrl)
Jwks(config) == [config |-> config, keySet |-> [builtFor |-> config.jwksUrl]]
NoJwks == [config |-> NoConfig, keySet |-> [builtFor |-> <<>>]]

\* Mutant of getJwks: the cached key set is kept while the issuer is the same.
getJwksByIssuer(jwks, config) ==
    IF jwks = NoJwks \/ jwks.config.issuer # config.issuer THEN Jwks(config) ELSE jwks

\* part_005:42-58, for a config that is not null: the new value of jwks
getJwks(jwks, config) ==
    IF \/ jwks = NoJwks
       \/ jwks.config.issuer # config.issuer
       \/ jwks.config.expectedClientId # config.expectedClientId
    THEN Jwks(config) ELSE jwks

\* A token as the verifier sees it: whether jwtVerify accepts its signature,
\* exp and nbf, and its aud and azp claims.
Azp(kind, value) == [kind |-> kind, value |-> value]
VToken(signed, aud, azp) == [signed |-> signed, aud |-> aud, azp |-> azp]
VAuds ==
    { NoAud, Aud("string", {<<"web">>}),
      Aud("string", {<<"other">>}), Aud("list", {<<"other">>}),
      Aud("list", {<<"other">>, <<"web">>}) }
VAzps ==
    { Azp("none", <<>>), Azp("number", <<>>), Azp("string", <<"web">>),
      Azp("string", <<"other">>) }
VTokens == { VToken(s, a, z) : s \in BOOLEAN, a \in VAuds, z \in VAzps }

\* Mutant of audienceOk: azp is not consulted.
audienceOkAudOnly(token, expected) ==
    \/ token.aud.kind = "string" /\ token.aud.values = {expected}
    \/ token.aud.kind = "list" /\ expected \in token.aud.values

\* part_005:74-79, audOk || azpOk
audienceOk(token, expected) ==
    LET aud == token.aud
        azp == IF token.azp.kind = "string" THEN token.azp.value ELSE <<"null">>
        audOk == IF aud.kind = "string" THEN aud.values = {expected}
                 ELSE IF aud.kind = "list" THEN expected \in aud.values
                 ELSE FALSE
        azpOk == azp = expected
    IN audOk \/ azpOk

\* Each of the three settings is non-empty after trimming.
AllSet(env) ==
    /\ Trim(env.KC_ENDPOINT) # <<>>
    /\ Trim(env.KC_REALM) # <<>>
    /\ Trim(env.KC_CLIENT_ID) # <<>>

VerifyIdle ==
    [pc |-> "idle", token |-> VToken(FALSE, NoAud, Azp("none", <<>>)),
     allSet |-> FALSE,               \* the three settings were non-empty after trimming
     config |-> NoConfig,            \* getKeycloakConfig() as the request saw it
     enabled |-> "false",            \* isKeycloakEnabled() of hooks.server.ts:28
     jwksBefore |-> NoJwks,          \* the module's jwks before getJwks ran
     cached |-> NoJwks,              \* what getJwks returned
     created |-> FALSE,              \* createRemoteJWKSet was called
     sigOk |-> FALSE,                \* jwtVerify resolved
     outcome |-> "none"]

InitVerify ==
    /\ now = TickMs
    /\ accessCache = <<>>
    /\ kc = [env |-> Env(<<>>, <<>>, <<>>), jwks |-> NoJwks]
    /\ req = [p \in {1} |-> VerifyIdle]
    /\ heap = NoHeap

\* The deployment's environment changes ($env/dynamic/private is read on
\* every call).
SetEnv ==
    /\ \E env \in Envs : kc' = [kc EXCEPT !.env = env]
    /\ UNCHANGED <<now, accessCache, req>>
    /\ UNCHANGED heap

\* hooks.server.ts:27-29 for a non-empty token, with the synchronous part of
\* verifyKeycloakAccessToken (part_005:62-69): isKeycloakEnabled, getJwks,
\* and the call of jwtVerify.  A TypeError of getKeycloakConfig is thrown
\* again by the catch block (hooks.server.ts:39) and leaves handle.
VerifyStart(p) ==
    /\ req[p].pc = "idle"
    /\ \E token \in VTokens :
        LET config == getKeycloakConfig(kc.env)
            r0 == [VerifyIdle EXCEPT !.token = token, !.config = config,
                                     !.allSet = AllSet(kc.env),
                                     !.enabled = isKeycloakEnabled(kc.env),
                                     !.jwksBefore = kc.jwks]
        IN
        IF config = ConfigThrows THEN
            /\ req' = [req EXCEPT ![p] = [r0 EXCEPT !.pc = "done", !.outcome = "configError"]]
            /\ UNCHANGED kc
        ELSE IF config = NoConfig THEN
            /\ req' = [req EXCEPT ![p] = [r0 EXCEPT !.pc = "done", !.outcome = "skipped"]]
            /\ UNCHANGED kc
        ELSE
            /\ kc' = [kc EXCEPT !.jwks = getJwks(kc.jwks, config)]
            /\ req' = [req EXCEPT ![p] =
                         [r0 EXCEPT !.pc = "jwtVerify", !.cached = kc'.jwks,
                                    !.created = (kc'.jwks # kc.jwks)]]
    /\ UNCHANGED <<now, accessCache>>
    /\ UNCHANGED heap

\* part_005:69-82: jwtVerify settles (it rejects a token whose signature,
\* exp or nbf fails, and any token when the key set cannot be fetched), then
\* the audience check.
JwtVerifyDone(p) ==
    /\ req[p].pc = "jwtVerify"
    /\ \E keysFetched \in BOOLEAN :
        LET r == req[p]
            sigOk == r.token.signed /\ keysFetched
        IN req' = [req EXCEPT ![p] =
                     [r EXCEPT !.pc = "done", !.sigOk = sigOk,
                               !.outcome =
                                   IF ~sigOk THEN "signature"
                                   ELSE IF audienceOk(r.token, r.cached.config.expectedClientId)
                                   THEN "payload" ELSE "audience"]]
    /\ UNCHANGED <<now, accessCache, kc>>
    /\ UNCHANGED heap

\* handle has gone on with the result.
VerifyFinish(p) ==
    /\ req[p].pc = "done"
    /\ req' = [req EXCEPT ![p] = VerifyIdle]
    /\ UNCHANGED <<now, accessCache, kc>>
    /\ UNCHANGED heap

NextVerify ==
    \/ SetEnv
    \/ VerifyStart(1)
    \/ JwtVerifyDone(1)
    \/ VerifyFinish(1)

SpecVerify == InitVerify /\ [][NextVerify]_vars

(* ------------------------------------------------------------------ *)
(* The identity provider client (sso-auth.ts:245-294, 308-354) with the  *)
(* values it receives and returns, and its two callers: the login        *)
(* action and the user lookup of handle.                                 *)
(* ------------------------------------------------------------------ *)
\* JwtLike (sso-auth.ts:12-21); NULL is an absent (undefined) member.
JwtLike(access, refresh, refreshExpiresIn) ==
    [access_token |-> access, refresh_token |-> refresh,
     refresh_expires_in |-> refreshExpiresIn]
NoJwt == JwtLike(EmptyToken, NULL, NULL)

\* The text of a response: empty, not JSON, an object without a jwt member,
\* or credentials.
Body(kind, jwt) == [kind |-> kind, jwt |-> jwt]
JsonBodies ==
    { Body("json", JwtLike(a, rt, rei)) :
        a \in UpstreamTokens, rt \in {NULL, EmptyRT} \cup RefreshTokens,
        rei \in UpstreamExpiresIn }
Bodies == { Body(k, NoJwt) : k \in {"empty", "malformed", "nojwt"} } \cup JsonBodies

ErrorStatuses == {401, 500}
Answer(kind, status, body) == [kind |-> kind, status |-> status, body |-> body]
NoAnswer == Answer("none", 0, Body("empty", NoJwt))
Answers ==
    { Answer("network", 0, Body("empty", NoJwt)) }
    \cup { Answer("response", s, Body("empty", NoJwt)) : s \in ErrorStatuses }
    \cup { Answer("response", 200, b) : b \in Bodies }

\* UserCredentials (sso-auth.ts:23-31) as far as the tokens go; null is NoUser.
Credentials(kind, jwt, issuedAt) == [kind |-> kind, jwt |-> jwt, issued_at |-> issuedAt]
NoUser == Credentials("null", NoJwt, 0)

\* What a call comes to: a value, or an exception with its status.
Returned(value) == [kind |-> "return", name |-> "", status |-> 0, value |-> value]
Threw(name, status) == [kind |-> "throw", name |-> name, status |-> status, value |-> NoUser]
NoResult == [kind |-> "none", name |-> "", status |-> 0, value |-> NoUser]

\* sso-auth.ts:245-262; the value is the parsed body, undefined for an
\* empty text
authFetch(answer) ==
    IF answer.kind = "network" THEN Threw("TypeError", 0)
    ELSE IF answer.status \notin 200..299 THEN Threw("ApiError", answer.status)
    ELSE IF answer.body.kind = "malformed" THEN Threw("SyntaxError", 0)
    ELSE Returned(answer.body)

\* Mutant of StripRefreshToken: the jwt is passed on as received.
KeepRefreshToken(response, nowMs) == Credentials("creds", response.jwt, nowMs)

\* sso-auth.ts:271-277 (and 287-293, 346-353):
\* {...response, issued_at: Date.now(), jwt: {...response.jwt, refresh_token: undefined}}
StripRefreshToken(response, nowMs) ==
    Credentials("creds", [response.jwt EXCEPT !.refresh_token = NULL], nowMs)

\* sso-auth.ts:264-278; reading response.jwt of undefined throws
userRefreshWithToken(answer, nowMs) ==
    LET response == authFetch(answer) IN
    IF response.kind = "throw" THEN response
    ELSE IF response.value.kind = "empty" THEN Threw("TypeError", 0)
    ELSE Returned(StripRefreshToken(response.value, nowMs))

\* sso-auth.ts:280-294
userLoginWithPassword(answer, nowMs) ==
    LET response == authFetch(answer) IN
    IF response.kind = "throw" THEN response
    ELSE IF response.value.kind = "empty" THEN Threw("TypeError", 0)
    ELSE Returned(StripRefreshToken(response.value, nowMs))

\* sso-auth.ts:332-354, the result; response.jwt.refresh_token throws when
\* response or response.jwt is undefined
loginFromEvent(answer, nowMs) ==
    LET response == authFetch(answer) IN
    IF response.kind = "throw" THEN response
    ELSE IF response.value.kind \in {"empty", "nojwt"} THEN Threw("TypeError", 0)
    ELSE IF response.value.jwt.refresh_token \in {NULL, EmptyRT}
    THEN Threw("ApiError", 502)
    ELSE Returned(StripRefreshToken(response.value, nowMs))

\* part_006:77-83, the catch block of the login action
failOf(result) ==
    IF result.name = "ApiError"
    THEN Fail(IF result.status # 0 THEN result.status ELSE 500)
    ELSE Fail(500)

\* sso-auth.ts:175-194 for a token that names a user
userFromToken(accessToken, nowMs) ==
    Credentials("creds", JwtLike(accessToken, NULL, NULL), nowMs)

Calls == {"userRefreshWithToken", "userLoginWithPassword", "loginFromEvent",
          "getUserFromEvent"}

ClientIdle ==
    [pc |-> "idle", call |-> "none", cookie |-> NoCookie,
     body |-> <<>>, query |-> <<>>,  \* the returnTo fields of the login form
     answer |-> NoAnswer,            \* what the provider answered
     result |-> NoResult,            \* what the called function came to
     cookieOps |-> <<>>,
     localsUser |-> NoUser,          \* event.locals.user
     outcome |-> NoOutcome]          \* the result of the login action

InitClient ==
    /\ now = TickMs
    /\ accessCache = <<>>
    /\ kc = FALSE
    /\ req = [p \in {1} |-> ClientIdle]
    /\ heap = NoHeap

\* A call starts, up to its await of fetch: the two bare client functions,
\* the login action with a complete form (part_006:69-78), or handle's user
\* lookup (hooks.server.ts:64, sso-auth.ts:308-321), which answers from the
\* cache without asking the provider when it can.
ClientCall(p) ==
    /\ req[p].pc = "idle"
    /\ \E call \in Calls, cookie \in Cookies, body \in Texts :
        LET r == [ClientIdle EXCEPT !.call = call]
            stored == getStoredRefresh(cookie)
            cached == CacheGet(accessCache, stored.refresh_token)
        IN
        IF call = "loginFromEvent" THEN
            /\ req' = [req EXCEPT ![p] = [r EXCEPT !.pc = "fetch", !.body = body]]
            /\ UNCHANGED accessCache
        ELSE IF call # "getUserFromEvent" THEN
            /\ req' = [req EXCEPT ![p] = [r EXCEPT !.pc = "fetch"]]
            /\ UNCHANGED accessCache
        ELSE IF stored = NoSession \/ RefreshExpired(stored, now) THEN
            /\ req' = [req EXCEPT ![p] =
                         [r EXCEPT !.pc = "done", !.cookie = cookie,
                                   !.result = Returned(NoUser)]]
            /\ UNCHANGED accessCache
        ELSE IF /\ cached # NoEntry /\ ~isAccessExpiringSoon(cached, now)
                /\ userFromAccessToken(cached.access_token) THEN
            /\ accessCache' = CacheTouch(accessCache, stored.refresh_token, now)
            /\ req' = [req EXCEPT ![p] =
                         [r EXCEPT !.pc = "done", !.cookie = cookie,
                                   !.result = Returned(userFromToken(cached.access_token, now)),
                                   !.localsUser = userFromToken(cached.access_token, now)]]
        ELSE
            /\ accessCache' = IF cached # NoEntry /\ ~isAccessExpiringSoon(cached, now)
                              THEN CacheTouch(accessCache, stored.refresh_token, now)
                              ELSE accessCache
            /\ req' = [req EXCEPT ![p] = [r EXCEPT !.pc = "fetch", !.cookie = cookie]]
    /\ UNCHANGED <<now, kc>>
    /\ UNCHANGED heap

\* The provider answers and the call runs to its end: the client function
\* returns or throws; loginFromEvent stores the refresh token and the login
\* action fails or redirects (part_006:77-91); getUserFromEvent stores the
\* presented token, fills the cache and handle assigns locals.user, or
\* ignores the exception (sso-auth.ts:321-330, hooks.server.ts:63-68).
AuthFetchDone(p) ==
    /\ req[p].pc = "fetch"
    /\ \E answer \in Answers :
        LET r == [req[p] EXCEPT !.pc = "done", !.answer = answer] IN
        CASE r.call = "userRefreshWithToken" ->
               /\ req' = [req EXCEPT ![p] =
                            [r EXCEPT !.result = userRefreshWithToken(answer, now)]]
               /\ UNCHANGED accessCache
          [] r.call = "userLoginWithPassword" ->
               /\ req' = [req EXCEPT ![p] =
                            [r EXCEPT !.result = userLoginWithPassword(answer, now)]]
               /\ UNCHANGED accessCache
          [] r.call = "loginFromEvent" ->
               LET result == loginFromEvent(answer, now) IN
               /\ req' = [req EXCEPT ![p] =
                     IF result.kind = "throw"
                     THEN [r EXCEPT !.result = result, !.outcome = failOf(result)]
                     ELSE [storeRefresh(r, answer.body.jwt.refresh_token,
                                        answer.body.jwt.refresh_expires_in, now)
                             EXCEPT !.result = result,
                                    !.outcome = Redirect(303, safeReturnTo(r.body, r.query))]]
               /\ UNCHANGED accessCache
          [] OTHER ->
               LET result == userRefreshWithToken(answer, now)
                   refreshToken == getStoredRefresh(r.cookie).refresh_token
                   refreshed == result.value
                   accessToken == IssuedFor(refreshed.jwt.access_token, refreshToken)
               IN
               IF result.kind = "throw" THEN
                   /\ req' = [req EXCEPT ![p] = [r EXCEPT !.result = result]]
                   /\ UNCHANGED accessCache
               ELSE
                   /\ accessCache' = trimAccessCacheIfNeeded(
                          CacheSet(accessCache, refreshToken, accessToken,
                                   getJwtExpiresAt(accessToken), now))
                   /\ req' = [req EXCEPT ![p] =
                         [storeRefresh(r, refreshToken, refreshed.jwt.refresh_expires_in, now)
                            EXCEPT !.result = result, !.localsUser = refreshed]]
    /\ UNCHANGED <<now, kc>>
    /\ UNCHANGED heap

\* The caller has gone on with the result.
ClientFinish(p) ==
    /\ req[p].pc = "done"
    /\ req' = [req EXCEPT ![p] = ClientIdle]
    /\ UNCHANGED <<now, accessCache, kc>>
    /\ UNCHANGED heap

NextClient ==
    \/ ClientCall(1)
    \/ AuthFetchDone(1)
    \/ ClientFinish(1)

SpecClient == InitClient /\ [][NextClient]_vars

(* ------------------------------------------------------------------ *)
(* Logout (src/routes/logout/+server.ts) beside the requests of handle.  *)
(* ------------------------------------------------------------------ *)
\* logout/+server.ts:7
LoggedOut == Outcome("logout", 303, "", "", <<>>)

\* POST /logout: handle resets locals and resolves, the path being neither
\* '/' nor under '/api/' (hooks.server.ts:15-22, 71); the route deletes the
\* refresh cookie and redirects to '/' (logout/+server.ts:5-8).
Logout(p) ==
    /\ req[p].pc = "idle"
    /\ \E auth \in Headers, cookie \in Cookies :
          req' = [req EXCEPT ![p] =
                    [clearAuthCookies(NewRequest(<<"logout">>, auth, cookie, now))
                       EXCEPT !.pc = "done", !.outcome = LoggedOut]]
    /\ UNCHANGED <<now, accessCache, kc>>
    /\ UNCHANGED heap

NextFrame ==
    \/ HandleStart(1, Paths, Headers, Cookies)
    \/ RefreshBearerDone(1, UpstreamTokens, UpstreamExpiresIn, {EmptyRT})
    \/ VerifyDone(1)
    \/ GetUser(1)
    \/ RefreshUserDone(1, UpstreamTokens, UpstreamExpiresIn, {EmptyRT})
    \/ Logout(1)
    \/ Finish(1)
    \/ Tick

SpecFrame == Init /\ [][NextFrame]_vars

(* ------------------------------------------------------------------ *)
(* The Postgres pool (src/lib/server/postgres.ts).  heap holds the       *)
(* module's `pool` and `initPromise`, and counts what was constructed.   *)
(* ------------------------------------------------------------------ *)
Callers == {1, 2, 3}
NoPool == 0                      \* `pool` is undefined
PgError == 0 - 1                 \* the call threw or its promise rejected

\* let pool, let initPromise (part_005:159-160); a pool is named by the
\* number of its construction.
PgModule(pool, initPromise, created, queries) ==
    [pool |-> pool, initPromise |-> initPromise,
     created |-> created,     \* pools constructed so far
     queries |-> queries]     \* initial 'select 1' queries sent so far

PgIdle ==
    [pc |-> "idle", call |-> "none",
     via |-> "none",          \* the branch initPostgres took
     result |-> NoPool]       \* what the caller received

\* Mutant of initBranch: the promise of a running initialisation is ignored.
initBranchPoolOnly(h) == IF h.pool # NoPool THEN "pool" ELSE "create"

\* part_005:163-164, what initPostgres does first
initBranch(h) ==
    IF h.pool # NoPool THEN "pool"
    ELSE IF h.initPromise # "undefined" THEN "promise"
    ELSE "create"

InitPostgres ==
    /\ now = TickMs
    /\ accessCache = <<>>
    /\ kc = FALSE
    /\ req = [p \in Callers |-> PgIdle]
    /\ heap = PgModule(NoPool, "undefined", 0, 0)

\* A caller calls initPostgres (part_005:162-193), up to its first await.
\* The first call reads the settings: when one is missing or invalid the
\* promise rejects before a pool is constructed (part_005:167-183);
\* otherwise the pool is constructed and the initial query sent.
CallInitPostgres(p) ==
    /\ req[p].pc = "idle"
    /\ LET branch == initBranch(heap)
           r == [PgIdle EXCEPT !.call = "initPostgres", !.via = branch]
       IN
       CASE branch = "pool" ->
              /\ req' = [req EXCEPT ![p] = [r EXCEPT !.pc = "done", !.result = heap.pool]]
              /\ UNCHANGED heap
         [] branch = "promise" ->
              /\ req' = [req EXCEPT ![p] = [r EXCEPT !.pc = "awaiting"]]
              /\ UNCHANGED heap
         [] OTHER ->
              /\ req' = [req EXCEPT ![p] = [r EXCEPT !.pc = "awaiting"]]
              /\ \E settingsOk \in BOOLEAN :
                    heap' = IF settingsOk
                            THEN [heap EXCEPT !.initPromise = "pending",
                                              !.created = @ + 1, !.queries = @ + 1]
                            ELSE [heap EXCEPT !.initPromise = "rejected"]
    /\ UNCHANGED <<now, accessCache, kc>>

\* part_005:186-189: the initial query settles; on success the pool is
\* published, on failure the promise rejects and stays.
QueryDone ==
    /\ heap.initPromise = "pending"
    /\ \E ok \in BOOLEAN :
          heap' = IF ok
                  THEN [heap EXCEPT !.pool = heap.created, !.initPromise = "fulfilled"]
                  ELSE [heap EXCEPT !.initPromise = "rejected"]
    /\ UNCHANGED <<now, accessCache, kc, req>>

\* A caller's await of initPromise ends once the promise has settled.
Receive(p) ==
    /\ req[p].pc = "awaiting"
    /\ heap.initPromise \in {"fulfilled", "rejected"}
    /\ req' = [req EXCEPT ![p] =
                 [req[p] EXCEPT !.pc = "done",
                                !.result = IF heap.initPromise = "fulfilled"
                                           THEN heap.pool ELSE PgError]]
    /\ UNCHANGED <<now, accessCache, kc, heap>>

\* part_005:195-200
GetPostgresPool(p) ==
    /\ req[p].pc = "idle"
    /\ req' = [req EXCEPT ![p] =
                 [PgIdle EXCEPT !.pc = "done", !.call = "getPostgresPool",
                                !.result = IF heap.pool = NoPool THEN PgError
                                           ELSE heap.pool]]
    /\ UNCHANGED <<now, accessCache, kc, heap>>

\* The caller has gone on.
PgFinish(p) ==
    /\ req[p].pc = "done"
    /\ req' = [req EXCEPT ![p] = PgIdle]
    /\ UNCHANGED <<now, accessCache, kc, heap>>

NextPostgres ==
    \/ \E p \in Callers : CallInitPostgres(p)
    \/ QueryDone
    \/ \E p \in Callers : Receive(p)
    \/ \E p \in Callers : GetPostgresPool(p)
    \/ \E p \in Callers : PgFinish(p)

SpecPostgres == InitPostgres /\ [][NextPostgres]_vars

(* ------------------------------------------------------------------ *)
(* The video listing cache (src/routes/api/videos/+server.ts).  heap     *)
(* holds the module's `cache`; a request slot is one call of             *)
(* getCachedMp4Keys, suspended at its await of the bucket listing.       *)
(* ------------------------------------------------------------------ *)
CACHE_TTL_MS == 180000
REFRESH_TIMEOUT_MS == 5000

\* Times the clock advances while the listing cache is exercised.
MaxElapse == 4

\* What listAllMp4Keys may return: the bucket's slugs, newest first.
Listings == {<<"a">>, <<"b", "a">>}

\* Date.now() moves on by the refresh timeout or by the rest of a TTL.
Elapsed == {REFRESH_TIMEOUT_MS, CACHE_TTL_MS - REFRESH_TIMEOUT_MS}

\* let cache (+server.ts:25-30); set is FALSE while it is undefined
VideoCache(set, fetchedAt, videoSlugs) ==
    [set |-> set, fetchedAt |-> fetchedAt, videoSlugs |-> videoSlugs]

NoVideoCache == VideoCache(FALSE, 0, <<>>)

VideoIdle ==
    [pc |-> "idle",
     now |-> 0,               \* const now = Date.now() of the call
     had |-> FALSE,           \* `cache` was set when the call began
     via |-> "none",          \* the return or throw the call ended with
     threw |-> FALSE,
     result |-> <<>>]

\* +server.ts:173
isFresh(cache, nowMs) == cache.set /\ nowMs - cache.fetchedAt < CACHE_TTL_MS

\* +server.ts:34-36: the timer of withTimeout is due
timeoutDue(r, nowMs) == nowMs - r.now >= REFRESH_TIMEOUT_MS

InitVideos ==
    /\ now = TickMs
    /\ accessCache = <<>>
    /\ kc = FALSE
    /\ req = [p \in Procs |-> VideoIdle]
    /\ heap = [cache |-> NoVideoCache, elapsed |-> 0]

\* getCachedMp4Keys up to its await (+server.ts:171-178, 192): a fresh cache
\* is returned at once, otherwise listAllMp4Keys is started under withTimeout.
CallGetCachedMp4Keys(p) ==
    /\ req[p].pc = "idle"
    /\ LET r == [VideoIdle EXCEPT !.now = now, !.had = heap.cache.set] IN
       req' = [req EXCEPT ![p] =
                 IF isFresh(heap.cache, now)
                 THEN [r EXCEPT !.pc = "done", !.via = "cached",
                                !.result = heap.cache.videoSlugs]
                 ELSE [r EXCEPT !.pc = "listing"]]
    /\ UNCHANGED <<now, accessCache, kc, heap>>

\* The await ends with the listing's keys (+server.ts:183-184, 197-198).
Listed(p, keys) ==
    /\ heap' = [heap EXCEPT !.cache = VideoCache(TRUE, req[p].now, keys)]
    /\ req' = [req EXCEPT ![p] =
                 [req[p] EXCEPT !.pc = "done",
                                !.via = IF req[p].had THEN "refreshed" ELSE "listed",
                                !.result = keys]]

\* The await ends with a rejection: caught when a cache existed at the call
\* (+server.ts:185-189), thrown to the caller otherwise (+server.ts:192-196).
Rejected(p) ==
    IF req[p].had
    THEN /\ heap' = [heap EXCEPT !.cache =
                       VideoCache(TRUE, req[p].now, heap.cache.videoSlugs)]
         /\ req' = [req EXCEPT ![p] =
                      [req[p] EXCEPT !.pc = "done", !.via = "stale",
                                     !.result = heap.cache.videoSlugs]]
    ELSE /\ heap' = heap
         /\ req' = [req EXCEPT ![p] =
                      [req[p] EXCEPT !.pc = "done", !.via = "threw",
                                     !.threw = TRUE]]

\* listAllMp4Keys settles before the timer (+server.ts:39).
ListingSettles(p) ==
    /\ req[p].pc = "listing"
    /\ \/ \E keys \in Listings : Listed(p, keys)
       \/ Rejected(p)
    /\ UNCHANGED <<now, accessCache, kc>>

\* The timer of withTimeout rejects first (+server.ts:35, 39).
TimeoutFires(p) ==
    /\ req[p].pc = "listing"
    /\ timeoutDue(req[p], now)
    /\ Rejected(p)
    /\ UNCHANGED <<now, accessCache, kc>>

\* The GET handler has gone on with the keys.
VideoFinish(p) ==
    /\ req[p].pc = "done"
    /\ req' = [req EXCEPT ![p] = VideoIdle]
    /\ UNCHANGED <<now, accessCache, kc, heap>>

\* Time passes; the timer of a pending withTimeout fires when it is due
\* (+server.ts:35), so the clock does not run past it.
Elapse ==
    /\ heap.elapsed < MaxElapse
    /\ \E d \in Elapsed :
          /\ \A p \in Procs :
                req[p].pc = "listing" => now + d - req[p].now <= REFRESH_TIMEOUT_MS
          /\ now' = now + d
    /\ heap' = [heap EXCEPT !.elapsed = @ + 1]
    /\ UNCHANGED <<accessCache, kc, req>>

NextVideos ==
    \/ \E p \in Procs : CallGetCachedMp4Keys(p)
    \/ \E p \in Procs : ListingSettles(p)
    \/ \E p \in Procs : TimeoutFires(p)
    \/ \E p \in Procs : VideoFinish(p)
    \/ Elapse

SpecVideos == InitVideos /\ [][NextVideos]_vars

(* ------------------------------------------------------------------ *)
(* The gallery page: paging (src/routes/+page.svelte, part_007).  heap   *)
(* holds the component's paging state, a request slot is one run of      *)
(* fetchNextPage between its fetch and its finally block.                *)
(* ------------------------------------------------------------------ *)
\* Pages the listing may have.
MaxPages == 3

FetchIdle == [pc |-> "idle", page |-> 0, by |-> "none"]
FillIdle == [pc |-> "idle", iterations |-> 0]

\* The component's state and the run of maybeFillViewport, if one is
\* suspended at part_007:91.  videos holds the page number of every batch
\* of items appended; error is TRUE when `error` is a message.
Gallery(videos, page, hasMore, loading) ==
    [videos |-> videos, page |-> page, hasMore |-> hasMore, loading |-> loading,
     error |-> FALSE, fillInProgress |-> FALSE, fill |-> FillIdle,
     refused |-> FALSE]       \* a call returned at part_007:99

Both(h, r) == [h |-> h, r |-> r]

\* Mutant of fetchGuard: `loading` is not looked at.
fetchGuardNoLoading(h) == h.hasMore

\* part_007:99, negated
fetchGuard(h) == ~h.loading /\ h.hasMore

\* part_007:98-108: fetchNextPage up to its await of fetch().
fetchNextPage(S, by) ==
    IF ~fetchGuard(S.h) THEN [S EXCEPT !.h.refused = TRUE]
    ELSE IF \A f \in Procs : S.r[f].pc # "idle" THEN S
    ELSE LET f == CHOOSE f \in Procs : S.r[f].pc = "idle" IN
         Both([S.h EXCEPT !.loading = TRUE, !.error = FALSE],
              [S.r EXCEPT ![f] = [pc |-> "fetching", page |-> S.h.page, by |-> by]])

\* part_007:89-95: the loop test of maybeFillViewport, then either the next
\* fetch and the await, or the finally block.
fillLoop(S, near) ==
    IF S.h.hasMore /\ ~S.h.loading /\ near /\ S.h.fill.iterations < 6
    THEN fetchNextPage(
             [S EXCEPT !.h.fill = [pc |-> "awaiting",
                                   iterations |-> S.h.fill.iterations + 1]],
             "fill")
    ELSE [S EXCEPT !.h.fillInProgress = FALSE, !.h.fill = FillIdle]

\* part_007:82-96
maybeFillViewport(S, near) ==
    IF S.h.fillInProgress THEN S
    ELSE fillLoop([S EXCEPT !.h.fillInProgress = TRUE], near)

\* part_007:122-127: the finally block of fetchNextPage
fetchFinally(S, f, near) ==
    LET T == maybeFillViewport([S EXCEPT !.h.loading = FALSE], near)
    IN  [T EXCEPT !.r[f] = FetchIdle]

InitGallery ==
    /\ now = TickMs
    /\ accessCache = <<>>
    /\ kc = FALSE
    /\ req = [f \in Procs |-> FetchIdle]
    /\ heap = Gallery(<<>>, 1, TRUE, FALSE)

Become(S) ==
    /\ S # Both(heap, req)
    /\ heap' = S.h
    /\ req' = S.r
    /\ UNCHANGED <<now, accessCache, kc>>

\* fetchNextPage is called: on mount, by the intersection observer, by the
\* modal's prefetch effect, by goNext, by openModalBySlug or by the retry
\* button (part_007:273, 569, 635, 727, 738, 846).
Trigger ==
    /\ fetchGuard(heap) \/ ~heap.refused
    /\ Become(fetchNextPage(Both(heap, req), "trigger"))

\* maybeFillViewport is called on mount (part_007:744).
TriggerFill ==
    /\ ~heap.fillInProgress
    /\ \E near \in BOOLEAN : Become(maybeFillViewport(Both(heap, req), near))

\* part_007:109-115: the response is ok and parses; /api/videos answers
\* page k of a listing of `total` pages (+server.ts:263-270).
FetchSucceeds(f) ==
    /\ req[f].pc = "fetching"
    /\ \E total \in 1..MaxPages :
          LET k == req[f].page
              more == k < total
          IN  heap' = [heap EXCEPT !.videos = Append(@, k),
                                   !.hasMore = more,
                                   !.page = IF more THEN k + 1 ELSE @]
    /\ req' = [req EXCEPT ![f].pc = "ticking"]
    /\ UNCHANGED <<now, accessCache, kc>>

\* part_007:116-127: the fetch fails, is aborted by the 15 s timer, answers
\* with an error status or with a body that does not parse.
FetchFails(f) ==
    /\ req[f].pc = "fetching"
    /\ \E near \in BOOLEAN :
          Become(fetchFinally(Both([heap EXCEPT !.error = TRUE], req), f, near))

\* part_007:115, 122-127: tick() is over.
TickDone(f) ==
    /\ req[f].pc = "ticking"
    /\ \E near \in BOOLEAN : Become(fetchFinally(Both(heap, req), f, near))

\* part_007:89-95: the fetchNextPage that maybeFillViewport awaits is over.
FillResume ==
    /\ heap.fill.pc = "awaiting"
    /\ \A f \in Procs : req[f].by # "fill"
    /\ \E near \in BOOLEAN : Become(fillLoop(Both(heap, req), near))

NextGallery ==
    \/ Trigger
    \/ TriggerFill
    \/ \E f \in Procs : FetchSucceeds(f)
    \/ \E f \in Procs : FetchFails(f)
    \/ \E f \in Procs : TickDone(f)
    \/ FillResume

SpecGallery == InitGallery /\ [][NextGallery]_vars

(* ------------------------------------------------------------------ *)
(* The gallery page: tag info of the shown video (part_007:324-361).     *)
(* heap holds the modal's state and videoInfoFetchSeq; the request with  *)
(* sequence number s is request slot s.                                  *)
(* ------------------------------------------------------------------ *)
\* Videos shown one after the other, each starting a tag-info request.
MaxShows == 3

Videos == {1, 2}
NoVideo == 0                     \* activeVideo is null

\* videoInfo: null, or the info of a video, with tags or (after a failed
\* request) without
VideoInfo(id, loaded) == [id |-> id, loaded |-> loaded]
NoVideoInfo == VideoInfo(NoVideo, FALSE)

InfoIdle == [pc |-> "idle", videoId |-> NoVideo, ignored |-> FALSE]

Modal(modalOpen, activeVideo, seq) ==
    [modalOpen |-> modalOpen, activeVideo |-> activeVideo,
     videoInfoFetchSeq |-> seq,
     videoInfo |-> NoVideoInfo, videoInfoLoading |-> FALSE,
     videoInfoError |-> FALSE]

\* Mutant of isLatest: every response is taken.
isLatestAlways(seq, h) == TRUE

\* part_007:331, 337, 341, negated
isLatest(seq, h) == seq = h.videoInfoFetchSeq

InitInfo ==
    /\ now = TickMs
    /\ accessCache = <<>>
    /\ kc = FALSE
    /\ req = [s \in 1..MaxShows |-> InfoIdle]
    /\ heap = Modal(FALSE, NoVideo, 0)

\* A video is shown (openModal, or a slide completes, part_007:174, 542) and
\* the effect runs (part_007:355-360) with fetchVideoInfo up to its await
\* (part_007:325-328).
ShowVideo(v) ==
    /\ heap.videoInfoFetchSeq < MaxShows
    /\ ~heap.modalOpen \/ heap.activeVideo # v
    /\ LET seq == heap.videoInfoFetchSeq + 1 IN
       /\ heap' = [heap EXCEPT !.modalOpen = TRUE, !.activeVideo = v,
                               !.videoInfoFetchSeq = seq,
                               !.videoInfoLoading = TRUE,
                               !.videoInfoError = FALSE]
       /\ req' = [req EXCEPT ![seq] = [InfoIdle EXCEPT !.pc = "pending", !.videoId = v]]
    /\ UNCHANGED <<now, accessCache, kc>>

\* closeModal (part_007:283-302) and the effect after it (part_007:347-353)
CloseInfo ==
    /\ heap.modalOpen
    /\ heap' = [heap EXCEPT !.modalOpen = FALSE, !.activeVideo = NoVideo,
                            !.videoInfo = NoVideoInfo,
                            !.videoInfoLoading = FALSE,
                            !.videoInfoError = FALSE]
    /\ UNCHANGED <<now, accessCache, kc, req>>

\* The request with sequence number s settles (part_007:329-343).
InfoSettles(s) ==
    /\ req[s].pc = "pending"
    /\ \E ok \in BOOLEAN :
          IF isLatest(s, heap)
          THEN /\ heap' = [heap EXCEPT !.videoInfo = VideoInfo(req[s].videoId, ok),
                                       !.videoInfoError = ~ok,
                                       !.videoInfoLoading = FALSE]
               /\ req' = [req EXCEPT ![s].pc = "done"]
          ELSE /\ heap' = heap
               /\ req' = [req EXCEPT ![s].pc = "done", ![s].ignored = TRUE]
    /\ UNCHANGED <<now, accessCache, kc>>

\* The timer of a slide that was under way at the close fires (part_007:
\* 541-552) and the effect runs with the modal closed (part_007:347-353).
SlideLandsClosed(v) ==
    /\ ~heap.modalOpen
    /\ heap.videoInfoFetchSeq > 0
    /\ heap.activeVideo = NoVideo
    /\ heap' = [heap EXCEPT !.activeVideo = v,
                            !.videoInfo = NoVideoInfo,
                            !.videoInfoLoading = FALSE,
                            !.videoInfoError = FALSE]
    /\ UNCHANGED <<now, accessCache, kc, req>>

NextInfo ==
    \/ \E v \in Videos : ShowVideo(v)
    \/ CloseInfo
    \/ \E v \in Videos : SlideLandsClosed(v)
    \/ \E s \in 1..MaxShows : InfoSettles(s)

SpecInfo == InitInfo /\ [][NextInfo]_vars

(* ------------------------------------------------------------------ *)
(* The gallery page: the modal and its slide transition                  *)
(* (part_007:161-217, 283-302, 500-553).  heap holds the modal's state,  *)
(* a request slot is one run of startSlideTo with the callbacks it       *)
(* registers.                                                            *)
(* ------------------------------------------------------------------ *)
SlideIdle ==
    [pc |-> "idle",
     nextVideo |-> NoVideo,
     frame |-> FALSE]         \* the requestAnimationFrame callback is pending

\* The model's videos[i] is video i + 1.
indexOf(v) == v - 1

Slider(modalOpen, activeVideo, activeIndex) ==
    [modalOpen |-> modalOpen, activeVideo |-> activeVideo,
     activeIndex |-> activeIndex, sliding |-> FALSE, slideRunning |-> FALSE]

InitSlide ==
    /\ now = TickMs
    /\ accessCache = <<>>
    /\ kc = FALSE
    /\ req = [p \in Procs |-> SlideIdle]
    /\ heap = Slider(FALSE, NoVideo, NULL)

\* part_007:161-191: a thumbnail is clicked or a deep link opened.
OpenModal(v) ==
    /\ ~heap.modalOpen
    /\ heap' = [heap EXCEPT !.modalOpen = TRUE, !.activeVideo = v,
                            !.activeIndex = indexOf(v),
                            !.sliding = FALSE, !.slideRunning = FALSE]
    /\ UNCHANGED <<now, accessCache, kc, req>>

\* part_007:283-302: Escape, the backdrop or the close button.
CloseModal ==
    /\ heap.modalOpen
    /\ heap' = [heap EXCEPT !.modalOpen = FALSE, !.activeVideo = NoVideo,
                            !.activeIndex = NULL,
                            !.sliding = FALSE, !.slideRunning = FALSE]
    /\ UNCHANGED <<now, accessCache, kc, req>>

\* goPrev or goNext (part_007:623-642) calls startSlideTo, which runs up to
\* its await of tick() (part_007:500-517).
StartSlideTo(p, v) ==
    /\ req[p].pc = "idle"
    /\ heap.activeIndex # NULL
    /\ indexOf(v) \in {heap.activeIndex - 1, heap.activeIndex + 1}
    /\ heap.modalOpen
    /\ ~heap.sliding
    /\ heap' = [heap EXCEPT !.sliding = TRUE, !.slideRunning = FALSE]
    /\ req' = [req EXCEPT ![p] = [SlideIdle EXCEPT !.pc = "awaiting", !.nextVideo = v]]
    /\ UNCHANGED <<now, accessCache, kc>>

\* part_007:517-552: tick() and play() are over; the frame callback and the
\* 320 ms timer are registered.
SlideReady(p) ==
    /\ req[p].pc = "awaiting"
    /\ req' = [req EXCEPT ![p].pc = "timer", ![p].frame = TRUE]
    /\ UNCHANGED <<now, accessCache, kc, heap>>

\* part_007:536-538
FrameRuns(p) ==
    /\ req[p].frame
    /\ heap' = [heap EXCEPT !.slideRunning = TRUE]
    /\ req' = [req EXCEPT ![p].frame = FALSE]
    /\ UNCHANGED <<now, accessCache, kc>>

\* part_007:541-552: the timer's callback
SlideTimer(p) ==
    /\ req[p].pc = "timer"
    /\ heap' = [heap EXCEPT !.activeVideo = req[p].nextVideo,
                            !.activeIndex = indexOf(req[p].nextVideo),
                            !.slideRunning = FALSE, !.sliding = FALSE]
    /\ req' = [req EXCEPT ![p].pc = "idle", ![p].nextVideo = NoVideo]
    /\ UNCHANGED <<now, accessCache, kc>>

NextSlide ==
    \/ \E v \in Videos : OpenModal(v)
    \/ CloseModal
    \/ \E p \in Procs, v \in Videos : StartSlideTo(p, v)
    \/ \E p \in Procs : SlideReady(p)
    \/ \E p \in Procs : FrameRuns(p)
    \/ \E p \in Procs : SlideTimer(p)

SpecSlide == InitSlide /\ [][NextSlide]_vars

(* ================================================================== *)
(* Claims                                                               *)
(* ================================================================== *)
Started(r) == r.pc # "idle"
Done(r) == r.pc = "done"
Stored(r) == getStoredRefresh(r.cookie)
\* The denial handle answers with for a path, spelled out.
IsDenialFor(o, path) ==
    IF Len(path) >= 2 /\ path[1] = "api"
    THEN /\ o.kind = "response" /\ o.status = 401
         /\ o.body = "{\"error\":\"Unauthorized\"}" /\ o.cacheControl = "no-store"
    ELSE /\ o.kind = "redirect" /\ o.status = 303 /\ o.returnTo = path

\* C1: with the verifier configured, a request on a protected path reaches
\* resolve only if verifyKeycloakAccessToken succeeded on its bearer token
\* during that request, for every header that matches the bearer pattern.
C1_ResolveOnlyIfVerified ==
    \A p \in Procs :
        (kc /\ Done(req[p]) /\ isProtected(req[p].path)
            /\ req[p].outcome.kind = "resolve")
        => req[p].verified

\* C2: whenever verification of the bearer fails on a protected request,
\* handle ends with the request denied in the route's shape, never with an
\* uncaught exception, and the deletion of the refresh cookie is the last
\* cookie operation of the request.
C2_VerifyFailureDeniesAndClears ==
    \A p \in Procs :
        (Done(req[p]) /\ req[p].verifyFailed)
        => /\ IsDenialFor(req[p].outcome, req[p].path)
           /\ Len(req[p].cookieOps) >= 1
           /\ req[p].cookieOps[Len(req[p].cookieOps)].op = "delete"

\* C3: at every await boundary and every return, under every interleaving
\* of requests, the access cache holds at most ACCESS_CACHE_MAX entries.
C3_CacheBounded == Len(accessCache) <= ACCESS_CACHE_MAX

\* C3 witness: the cache is full after a request's insert exceeded the
\* maximum and was trimmed, while another request is still in flight.
C3_Witness ==
    /\ Len(accessCache) = ACCESS_CACHE_MAX
    /\ \E p, q \in Procs :
        /\ p # q
        /\ req[p].evicted >= 1
        /\ req[q].pc \in {"refreshB", "refreshU", "user"}

\* The step in which the refresh awaited by request p answered successfully
\* and its entry was inserted.
InsertStep(p) ==
    \/ req[p].pc = "refreshB" /\ req'[p].served = "refresh"
    \/ req[p].pc = "refreshU" /\ req'[p].user = "provider"

\* last_used_at the insert of request p writes (sso-auth.ts:222 and 326)
InsertStamp(p) == IF req[p].pc = "refreshB" THEN req[p].t0 ELSE now

\* `after` is `before` with exactly n entries deleted, none of the kept
\* entries older (by last_used_at) than a deleted one.
EvictsOldest(before, after, n) ==
    LET kept == {i \in 1..Len(before) : before[i].key \in Keys(after)}
        gone == (1..Len(before)) \ kept
    IN /\ Cardinality(gone) = n
       /\ Len(after) = Len(before) - n
       /\ \A i \in 1..Len(after) : after[i] \in {before[j] : j \in kept}
       /\ \A g \in gone, k \in kept :
            ~(before[k].last_used_at < before[g].last_used_at)

C5_NoStaleCacheHit ==
    \A p \in Procs :
        LET r == req[p] IN
        /\ r.served = "cache" => (r.foundExp # NULL /\ r.foundExp - r.t0 > 20000)
        /\ ((r.pc = "refreshB" \/ r.served \in {"cache", "refresh"})
               /\ (r.foundExp = NULL \/ r.foundExp - r.t0 <= 20000))
             => (r.served # "cache" /\ r.upstream >= 1)

\* C5 witness: an entry with expires_at - now exactly the skew was found and
\* the call refreshed upstream.
C5_Witness ==
    \E p \in Procs :
        /\ req[p].served = "refresh"
        /\ req[p].foundExp # NULL
        /\ req[p].foundExp - req[p].t0 = 20000

\* A step in which handle starts on a request in slot p and
\* getAccessTokenForRefresh looks the refresh token up.
StartLookup(p) ==
    /\ req[p].pc = "idle"
    /\ req'[p].pc \in {"refreshB", "verify", "user"}
    /\ req'[p].lookups = 1

\* C6: if the cache holds an entry for the refresh token with
\* expires_at - now > 20000 ms, getAccessTokenForRefresh returns that entry's
\* access token, makes no upstream call, writes no cookie, and changes
\* nothing in the cache except that entry's last_used_at, set to now.
C6_FreshHitFrame ==
    [][ \A p \in Procs :
          LET k == Stored(req'[p]).refresh_token
              e == CacheGet(accessCache, k)
          IN (StartLookup(p) /\ k \in Keys(accessCache)
                /\ e.expires_at # NULL /\ e.expires_at - now > 20000)
             => /\ req'[p].bearer = Str("Bearer", 1, e.access_token)
                /\ req'[p].upstream = 0
                /\ req'[p].cookieOps = <<>>
                /\ Len(accessCache') = Len(accessCache)
                /\ \A i \in 1..Len(accessCache) :
                     accessCache'[i] =
                        IF accessCache[i].key = k
                        THEN [accessCache[i] EXCEPT !.last_used_at = now]
                        ELSE accessCache[i]
      ]_vars

\* C6 witness: a call was served from the cache at a time later than the
\* entry's insertion, and the entry now carries that time.
C6_Witness ==
    \E p \in Procs :
        /\ req[p].served = "cache" /\ req[p].pc \in {"verify", "user"}
        /\ req[p].t0 > TickMs
        /\ CacheGet(accessCache, Stored(req[p]).refresh_token).last_used_at = req[p].t0

\* C7: an access token without a parseable numeric exp is cached as already
\* expired: every later lookup of its refresh token by
\* getAccessTokenForRefresh or getUserFromEvent refreshes upstream and the
\* token is not served from the cache.
C7_NoExpiryNeverServed ==
    [][ \A p \in Procs :
          LET k == Stored(req'[p]).refresh_token
              e == CacheGet(accessCache, k)
              noExp == k \in Keys(accessCache) /\ e.access_token.exp = NoExp
          IN /\ (StartLookup(p) /\ noExp)
                  => /\ req'[p].pc = "refreshB"
                     /\ req'[p].upstream = 1
                     /\ req'[p].served = "none"
             /\ (req[p].pc = "user" /\ req'[p].lookups = req[p].lookups + 1 /\ noExp)
                  => /\ req'[p].pc = "refreshU"
                     /\ req'[p].upstream = req[p].upstream + 1
                     /\ req'[p].user = "null"
      ]_vars

\* C7 witness: a request is refreshing upstream although the cache holds an
\* entry for its refresh token, whose token has no exp.
C7_Witness ==
    \E p \in Procs :
        LET k == Stored(req[p]).refresh_token IN
        /\ req[p].pc \in {"refreshB", "refreshU"}
        /\ k \in Keys(accessCache)
        /\ CacheGet(accessCache, k).access_token.exp = NoExp
        /\ CacheGet(accessCache, k).expires_at = NULL

\* The session has a deadline that is strictly earlier than t.
DeadlinePassed(stored, t) ==
    /\ stored.refresh_token # EmptyRT
    /\ stored.refresh_expires_at # NULL
    /\ stored.refresh_expires_at < t

MatchingHeader(h) ==
    h.scheme = "Bearer" /\ h.ws >= 1 /\ (h.rest.seg # "empty" \/ h.ws >= 2)

\* No event.cookies.set among the request's cookie operations.
NoCookieWrite(r) == \A i \in 1..Len(r.cookieOps) : r.cookieOps[i].op # "set"

NoCredential(r) ==
    /\ r.auth.scheme = "none"
    /\ \/ r.cookie.enc \in {"none", "garbage"}
       \/ DeadlinePassed(Stored(r), r.t0)

\* C10: a protected request with no usable credential is denied, in a shape
\* the path alone decides: 401 with JSON body {"error":"Unauthorized"} and
\* cache-control no-store under '/api/', a 303 redirect to /login carrying
\* returnTo for the page path; no upstream call is made and resolve is not
\* invoked.
C10_NoCredentialDenied ==
    \A p \in Procs :
        LET r == req[p] IN
        (Started(r) /\ isProtected(r.path) /\ NoCredential(r))
        => /\ Done(r)
           /\ IsDenialFor(r.outcome, r.path)
           /\ r.upstream = 0 /\ r.lookups = 0
           /\ r.localsBearer = NoBearer /\ r.user = "null"

\* C10 witness: the page path was denied with the redirect while the same
\* kind of request is denied with the 401 on an API path.
C10_Witness ==
    \E p \in Procs :
        LET r == req[p] IN
        /\ Done(r) /\ r.path = <<>> /\ r.auth = NoHeader /\ r.cookie = NoCookie
        /\ r.outcome.kind = "redirect" /\ r.outcome.status = 303
        /\ r.outcome.returnTo = <<>>
        /\ r.upstream = 0

\* The step in which the refresh awaited by getBearerFromEvent (B) or by
\* getUserFromEvent (U) for request p failed.
BearerRefreshFailed(p) ==
    req[p].pc = "refreshB" /\ req'[p].pc # "refreshB" /\ req'[p].served # "refresh"
UserRefreshFailed(p) ==
    req[p].pc = "refreshU" /\ req'[p].pc # "refreshU" /\ req'[p].user # "provider"

\* The request ends denied in its route's shape, the cookie deletion being
\* its last cookie operation.
DeniedAndCleared(r) ==
    /\ r.pc = "done"
    /\ IsDenialFor(r.outcome, r.path)
    /\ Len(r.cookieOps) >= 1
    /\ r.cookieOps[Len(r.cookieOps)].op = "delete"

C12_EveryRequestEnds ==
    \A p \in Procs :
        (req[p].pc \in {"refreshB", "verify", "user", "refreshU"})
            ~> (req[p].pc = "done")

\* The access tokens the provider may answer with to a refresh with k.
RaceTokensFor(k) == { IssuedFor(t, k) : t \in RaceTokens }
\* Request q presents the session of request p, and a refresh it made has
\* already completed.
RacesWith(p, q) ==
    /\ p # q
    /\ req[q].pc # "idle"
    /\ Stored(req[q]).refresh_token = Stored(req[p]).refresh_token
    /\ (req[q].served = "refresh" \/ req[q].user = "provider")

\* C13: under every interleaving of two concurrent requests presenting the
\* same refresh token with a missing or near-expiry cache entry, each request
\* returns the access token of its own successful refresh, whatever the other
\* request writes, and once a refresh completes while the other request has
\* refreshed too, the cache entry for the refresh token is the one that
\* refresh wrote: the last write wins.
C13_LastRefreshWins ==
    [][ \A p \in Procs :
          LET k == Stored(req[p]).refresh_token
              e == CacheGet(accessCache', k)
          IN
          /\ (InsertStep(p) /\ \E q \in Procs : RacesWith(p, q))
               => /\ k \in Keys(accessCache')
                  /\ e.last_used_at = InsertStamp(p)
                  /\ e.access_token.owner = k
                  /\ req[p].pc = "refreshB"
                       => /\ req'[p].bearer = Str("Bearer", 1, e.access_token)
                          /\ e.access_token \in RaceTokensFor(k)
          /\ (req[p].served = "refresh" /\ req'[p].pc # "idle")
               => req'[p].bearer = req[p].bearer
      ]_vars

\* C14: tokens never cross sessions.  Under every interleaving of concurrent
\* requests, the access token cached under a refresh token, and the one
\* returned for it, was obtained from an upstream refresh call made with that
\* refresh token, and the identity in a request's locals comes from the
\* request's own session.
C14_TokensStayInSession ==
    /\ \A i \in 1..Len(accessCache) :
         accessCache[i].access_token.owner = accessCache[i].key
    /\ \A p \in Procs :
         LET r == req[p] IN
         /\ (r.served \in {"cache", "refresh"} /\ r.bearer.scheme # "null")
              => r.bearer.rest.owner = Stored(r).refresh_token
         /\ (r.served \in {"cache", "refresh"} /\ r.localsBearer.scheme # "null")
              => r.localsBearer.rest.owner = Stored(r).refresh_token
         /\ r.user # "null" => r.userFrom = Stored(r).refresh_token

\* C14 witness: two requests of different sessions are in flight together,
\* one served from the cache and one by a refresh, each with its own
\* session's token, and one of them has its identity.
C14_Witness ==
    \E p, q \in Procs :
        /\ Stored(req[p]).refresh_token # Stored(req[q]).refresh_token
        /\ req[p].served = "cache" /\ req[q].served = "refresh"
        /\ req[p].bearer.rest.owner = Stored(req[p]).refresh_token
        /\ req[q].bearer.rest.owner = Stored(req[q]).refresh_token
        /\ req[p].user = "token" /\ req[p].userFrom = Stored(req[p]).refresh_token

\* C15: when a call of getAccessTokenForRefresh refreshes and obtains a
\* token that expires more than 20 s in the future, a second call for the
\* same refresh token made as soon as the first has returned finds that
\* token in the cache: one upstream call in total, the same access token
\* from both calls.
C15_SecondCallHitsCache ==
    [][ \A p \in Procs :
          LET k == Stored(req[p]).refresh_token
              token == req'[p].bearer.rest
          IN
          (/\ req[p].pc = "refreshB" /\ req'[p].served = "refresh"
           /\ token.exp # NoExp /\ token.exp * 1000 - now' > 20000)
          => /\ CacheHit(accessCache', k, now')
             /\ CacheGet(accessCache', k).access_token = token
      ]_vars

\* The step in which getUserFromEvent runs for a request that was served
\* from the cache at this very instant, the entry of its session holding a
\* token that is not expiring soon: the replay of a cookie right after the
\* request that refreshed.
ReplayIdentityStep(p) ==
    /\ req[p].pc = "user" /\ req'[p].pc # "user"
    /\ req[p].served = "cache"
    /\ req[p].t0 = now
    /\ CacheHit(accessCache, Stored(req[p]).refresh_token, now)
    /\ req[p].bearer =
          Str("Bearer", 1, CacheGet(accessCache, Stored(req[p]).refresh_token).access_token)

\* C16 as stated: the request that replays the cookie right after a refresh
\* completes the whole of handle, bearer lookup and identity lookup, with no
\* upstream refresh call, for every access token payload.
C16_ReplayMakesNoUpstreamCall ==
    [][ \A p \in Procs :
          ReplayIdentityStep(p)
          => /\ req'[p].pc = "done" /\ req'[p].outcome.kind = "resolve"
             /\ req'[p].upstream = 0
             /\ req'[p].localsBearer = req[p].bearer
      ]_vars

\* C16 amended: the replaying request is served the cached access token by
\* getBearerFromEvent without an upstream call.  If that token's payload
\* carries a string sub and a string preferred_username or username,
\* getUserFromEvent reconstructs the identity from it and the request
\* completes handle with no upstream call at all; for any other payload
\* getUserFromEvent makes an upstream refresh call in this request too.
C16_ReplayNeedsIdentityClaims ==
    [][ \A p \in Procs :
          LET token == req[p].bearer.rest IN
          ReplayIdentityStep(p)
          => /\ req[p].upstream = 0
             /\ (token.seg = "object" /\ token.ident)
                  => /\ req'[p].pc = "done" /\ req'[p].outcome.kind = "resolve"
                     /\ req'[p].upstream = 0
                     /\ req'[p].user = "token"
                     /\ req'[p].localsBearer = req[p].bearer
                     /\ req'[p].cookieOps = <<>>
             /\ ~(token.seg = "object" /\ token.ident)
                  => /\ req'[p].pc = "refreshU"
                     /\ req'[p].upstream = 1
      ]_vars

\* C16 witness: a replaying request has completed handle on the cached
\* token, identity included, without any upstream call.
C16_Witness ==
    \E p \in Procs :
        LET r == req[p] IN
        /\ Done(r) /\ r.served = "cache" /\ r.t0 = now
        /\ r.outcome.kind = "resolve" /\ r.user = "token"
        /\ r.upstream = 0 /\ r.cookieOps = <<>>
        /\ r.localsBearer = r.bearer
        /\ r.bearer.rest.exp = FreshExp

\* The protected handler was invoked.
Allowed(r) == r.outcome.kind = "resolve"

\* Two runs of handle that may differ in the payload of the bearer token
\* only: same path, same cookie, the same kind of Authorization header with a
\* token present in both or in neither, a bearer obtained in both or in
\* neither (the upstream answers agree), and no verdict of the verifier for
\* the one against a verdict for the other.
DifferOnlyInPayload(a, b) ==
    /\ a.path = b.path /\ a.cookie = b.cookie
    /\ a.auth.scheme = b.auth.scheme /\ a.auth.ws = b.auth.ws
    /\ (a.auth.rest.seg = "empty") = (b.auth.rest.seg = "empty")
    /\ (a.served = "none") = (b.served = "none")
    /\ ~(a.verified /\ b.verifyFailed) /\ ~(b.verified /\ a.verifyFailed)

\* C17: claims decoded without verification never decide authorization: two
\* finished runs of handle that differ only in the unverified payload of the
\* bearer token have the same allow/deny outcome.
C17_PayloadDoesNotDecide ==
    \A p, q \in Procs :
        (Done(req[p]) /\ Done(req[q]) /\ DifferOnlyInPayload(req[p], req[q]))
        => (Allowed(req[p]) = Allowed(req[q]))

\* C17 witness: with the verifier configured, two requests carrying tokens
\* with different payloads both failed verification; the payload changed how
\* handle ended (an exception for the one, the denial for the other) and
\* neither reached the protected handler.
C17_Witness ==
    \E p, q \in Procs :
        /\ kc /\ Done(req[p]) /\ Done(req[q])
        /\ DifferOnlyInPayload(req[p], req[q])
        /\ req[p].auth.rest # req[q].auth.rest
        /\ req[p].verifyFailed /\ req[q].verifyFailed
        /\ req[p].outcome.kind = "throw"
        /\ IsDenialFor(req[q].outcome, req[q].path)
        /\ ~Allowed(req[p]) /\ ~Allowed(req[q])

\* C19: whenever a protected request passes authentication and resolve is
\* reached, event.locals.bearer is the bearer that was authenticated, so it
\* is non-null whether or not the identity lookup succeeded, and
\* event.locals.user, when set, is the identity of the provider's answer or
\* the one reconstructed from the cached access token.
C19_LocalsPopulated ==
    \A p \in Procs :
        LET r == req[p] IN
        (Done(r) /\ isProtected(r.path) /\ r.outcome.kind = "resolve")
        => /\ r.localsBearer.scheme # "null"
           /\ r.localsBearer = r.bearer
           /\ r.user \in {"null", "token", "provider"}


\* A destination that a browser resolves against the site's own origin: it
\* begins with a single "/".  "//host" is a scheme-relative URL of another
\* host, and browsers read "/\host" the same way.
SameOriginPath(s) ==
    /\ startsWith(s, "/")
    /\ ~(Len(s) >= 2 /\ s[2] \in {"/", "\\"})

\* C18: the destination the login action redirects to after a successful
\* login is, for every returnTo value taken from the form body or the query
\* string, a path on the same origin.
C18_ReturnDestinationSameOrigin ==
    \A p \in DOMAIN req :
        (req[p].pc = "done" /\ req[p].outcome.kind = "redirect")
        => SameOriginPath(req[p].outcome.location)


\* The token declares the audience: its decoded aud claim equals it (a
\* string) or contains it (a list).
DeclaresAudience(token, a) ==
    /\ token.seg = "object"
    /\ \/ token.aud.kind = "string" /\ token.aud.values = {a}
       \/ token.aud.kind = "list" /\ a \in token.aud.values

\* The candidates in probing order: for each acceptable audience in list
\* order, the access token and then the ID token.
Candidates(creds) ==
    << <<creds.access_token, "psysloptv">>, <<creds.id_token, "psysloptv">>,
       <<creds.access_token, "api.slopindustries.com">>,
       <<creds.id_token, "api.slopindustries.com">> >>

\* The token that probing selects.
ProbedToken(creds) ==
    LET c == Candidates(creds)
        hits == { i \in 1..Len(c) : DeclaresAudience(c[i][1], c[i][2]) }
    IN IF hits = {} THEN creds.access_token
       ELSE c[CHOOSE i \in hits : \A j \in hits : i <= j][1]

\* C20: the bearer presented downstream is the first candidate, in probing
\* order, that declares an acceptable audience, and the access token when
\* no candidate declares one.
C20_BearerChosenByProbing ==
    \A p \in DOMAIN req :
        req[p].pc = "done"
        => req[p].bearer = Str("Bearer", 1, ProbedToken(req[p].creds))

\* The same statement of the probing function of hit-metrics.ts alone.
ProbingFunctionProbes ==
    \A p \in DOMAIN req :
        (req[p].pc = "done" /\ req[p].via = "hit-metrics")
        => req[p].bearer = Str("Bearer", 1, ProbedToken(req[p].creds))


\* getAccessTokenForRefresh of slot p returns from an upstream refresh.
BearerRefreshReturns(p) ==
    /\ req[p].pc = "refreshB"
    /\ req'[p].served = "refresh"

\* The session the provider's answer describes, for a call that presented
\* refreshToken: the refresh token of the answer when it carries one, and
\* the expiry its refresh_expires_in gives at nowMs.
AnsweredSession(refreshToken, provided, rei, nowMs) ==
    RefreshCookie(IF provided # EmptyRT THEN provided ELSE refreshToken,
                  IF rei # NULL /\ rei > 0 THEN nowMs + rei * 1000 ELSE NULL)

\* The cookie the step writes last.
WrittenBy(r) == r.cookieOps[Len(r.cookieOps)]

\* C21: every getAccessTokenForRefresh call that performs an upstream refresh
\* writes the refresh cookie before it returns, and the written session
\* carries the refresh token of the provider's answer (the rotated one when
\* the provider rotated it) and refresh_expires_at = now + refresh_expires_in
\* seconds, null when refresh_expires_in is absent or not positive.
C21_CookieReflectsAnswer ==
    [][\A p \in Procs :
         BearerRefreshReturns(p)
         => /\ Len(req'[p].cookieOps) = Len(req[p].cookieOps) + 1
            /\ WrittenBy(req'[p]) =
                 CookieOp("set", encodeRefreshCookie(
                     AnsweredSession(Stored(req[p]).refresh_token,
                                     req'[p].provided, req'[p].providedIn, now)))]_vars

\* What the code does: the cookie is written, with the expiry of the answer,
\* and always with the refresh token that was presented.
CookieKeepsPresentedToken ==
    [][\A p \in Procs :
         BearerRefreshReturns(p)
         => /\ Len(req'[p].cookieOps) = Len(req[p].cookieOps) + 1
            /\ WrittenBy(req'[p]) =
                 CookieOp("set", encodeRefreshCookie(
                     AnsweredSession(Stored(req[p]).refresh_token,
                                     EmptyRT, req'[p].providedIn, now)))]_vars


\* C22: for every RefreshSession s with a non-empty refresh_token and
\* refresh_expires_at a timestamp or null, decodeRefreshCookie of
\* encodeRefreshCookie(s) equals s.
C22_RoundTrip ==
    \A p \in DOMAIN req :
        (req[p].pc = "read" /\ req[p].scheme = "base64url")
        => req[p].decoded = req[p].session

C22_Witness ==
    \E p \in DOMAIN req :
        /\ req[p].pc = "read" /\ req[p].scheme = "base64url"
        /\ req[p].session.refresh_expires_at # NULL
        /\ \E i \in 1..Len(req[p].session.refresh_token) :
              req[p].session.refresh_token[i] > 127
        /\ Len(req[p].raw) % 4 # 0
        /\ \E i \in 1..Len(req[p].raw) : req[p].raw[i] \in {Minus, Underscore}

\* C23: every value produced by the legacy encoder decodes to the same
\* refresh token as the modern encoding of the same session.
C23_LegacyDecodesToSameToken ==
    \A p \in DOMAIN req :
        (req[p].pc = "read" /\ req[p].scheme = "legacy")
        => /\ req[p].decoded # NoText
           /\ req[p].decoded.refresh_token =
                decodeRefreshCookieText(
                    encodeRefreshCookieText(req[p].session)).refresh_token

\* The same for the sessions whose refresh token is ASCII text.
LegacyAsciiDecodes ==
    \A p \in DOMAIN req :
        (/\ req[p].pc = "read" /\ req[p].scheme = "legacy"
         /\ \A i \in 1..Len(req[p].session.refresh_token) :
               req[p].session.refresh_token[i] < 128)
        => req[p].decoded = req[p].session


\* The first x-forwarded-proto value is https.
ForwardedHttps(f) == f.present /\ Trim(f.values[1]) = <<"https">>

\* The session written by the stored cookie.
WrittenSession(r) == decodeRefreshCookie(WrittenBy(r).value)

\* C24: storeRefresh sets the cookie's Secure attribute whenever the request
\* URL protocol is https or the first x-forwarded-proto value is https, and
\* not when neither is the case; the cookie's expires attribute equals
\* refresh_expires_at when known and is absent otherwise.
C24_SecureWhenEncrypted ==
    \A p \in DOMAIN req :
        req[p].pc = "stored"
        => /\ req[p].options[1].secure
                = (req[p].protocol = "https:" \/ ForwardedHttps(req[p].forwardedProto))
           /\ req[p].options[1].expires = WrittenSession(req[p]).refresh_expires_at

\* What the code does: a non-empty first x-forwarded-proto value decides
\* alone, the URL protocol only without one; expires is refresh_expires_at.
SecureHeaderFirst ==
    \A p \in DOMAIN req :
        req[p].pc = "stored"
        => /\ req[p].options[1].secure
                = IF req[p].forwardedProto.present
                     /\ Trim(req[p].forwardedProto.values[1]) # <<>>
                  THEN ForwardedHttps(req[p].forwardedProto)
                  ELSE req[p].protocol = "https:"
           /\ req[p].options[1].expires = WrittenSession(req[p]).refresh_expires_at


\* C25: the claim reader and the helpers built on it return a value for
\* every token and never throw to their caller, so no request ends with an
\* exception of theirs leaving handle.
C25_ClaimReaderNeverThrows ==
    \A p \in Procs : Done(req[p]) => req[p].outcome.kind # "throw"


\* The token names the client: its aud claim equals the client id (a
\* string) or contains it (a list), or its azp claim is that string.
NamesClient(token, clientId) ==
    \/ token.aud.kind = "string" /\ token.aud.values = {clientId}
    \/ token.aud.kind = "list" /\ clientId \in token.aud.values
    \/ token.azp.kind = "string" /\ token.azp.value = clientId

C27_EnabledIffAllSet ==
    \A p \in DOMAIN req :
        LET r == req[p] IN
        r.pc # "idle"
        => /\ (r.enabled = "true") <=> r.allSet
           /\ ~r.allSet => /\ r.enabled = "false"
                           /\ r.pc = "done" /\ r.outcome = "skipped"
                           /\ r.cached = NoJwks

\* What holds of the code: a missing setting disables the verifier without
\* an error, and settings that are all present enable it unless the endpoint
\* is not an absolute URL, in which case reading the configuration throws.
MissingSettingDisables ==
    \A p \in DOMAIN req :
        LET r == req[p] IN
        r.pc # "idle"
        => /\ ~r.allSet => r.enabled = "false" /\ r.outcome = "skipped"
           /\ r.allSet => r.enabled \in {"true", "throws"}
           /\ (r.enabled = "throws") <=> (r.outcome = "configError")


\* The cached key set was built for another (issuer, client id) pair.
BuiltForOther(jwks, config) ==
    \/ jwks.config.issuer # config.issuer
    \/ jwks.config.expectedClientId # config.expectedClientId

\* C28: the key set is created on first use and reused while the (issuer,
\* client id) configuration is unchanged; when either value changed, the
\* next verification replaces it with one built for the new configuration;
\* a verification never uses a key set built for another configuration than
\* the one it read, and only a verification changes the cached key set.
C28_KeySetFollowsConfig ==
    /\ [](\A p \in DOMAIN req :
            LET r == req[p] IN
            (r.pc # "idle" /\ r.enabled = "true")
            => /\ r.cached.config = r.config
               /\ r.cached.keySet.builtFor = r.config.jwksUrl
               /\ r.created <=> (r.jwksBefore = NoJwks \/ BuiltForOther(r.jwksBefore, r.config))
               /\ ~r.created => r.cached = r.jwksBefore)
    /\ [][kc'.jwks # kc.jwks
            => \E p \in DOMAIN req :
                  /\ req[p].pc = "idle" /\ req'[p].pc = "jwtVerify"
                  /\ kc'.jwks = req'[p].cached]_vars

\* C28 witness: a verification found a key set cached for the same issuer
\* and another client id, and replaced it.
C28_Witness ==
    \E p \in DOMAIN req :
        /\ req[p].pc = "jwtVerify" /\ req[p].created
        /\ req[p].jwksBefore # NoJwks
        /\ req[p].jwksBefore.config.issuer = req[p].config.issuer
        /\ req[p].jwksBefore.config.expectedClientId # req[p].config.expectedClientId
        /\ kc.jwks = Jwks(req[p].config)


\* C29: no value returned by userRefreshWithToken, userLoginWithPassword or
\* loginFromEvent carries a refresh token, and so no identity placed in
\* event.locals.user carries one.
C29_NoRefreshTokenReturned ==
    \A p \in DOMAIN req :
        /\ (req[p].result.kind = "return" /\ req[p].result.value # NoUser)
           => req[p].result.value.jwt.refresh_token = NULL
        /\ req[p].localsUser # NoUser => req[p].localsUser.jwt.refresh_token = NULL

\* C29 witness: the provider answered the user lookup with a refresh token
\* in its jwt, and the identity is in event.locals.user.
C29_Witness ==
    \E p \in DOMAIN req :
        /\ req[p].pc = "done" /\ req[p].call = "getUserFromEvent"
        /\ req[p].answer.body.jwt.refresh_token \in RefreshTokens
        /\ req[p].localsUser # NoUser
        /\ req[p].localsUser = req[p].result.value


\* The provider answered with a status outside 200..299.
NonSuccess(answer) == answer.kind = "response" /\ answer.status \notin 200..299
\* The provider answered with success and credentials whose jwt has no
\* refresh token (absent, null or empty).
CredentialsWithoutRefresh(answer) ==
    /\ answer.kind = "response" /\ answer.status \in 200..299
    /\ answer.body.kind = "json"
    /\ answer.body.jwt.refresh_token \in {NULL, EmptyRT}
\* The provider answered with success and a body that is no credentials:
\* empty, not JSON, or without a jwt member.
NoCredentials(answer) ==
    /\ answer.kind = "response" /\ answer.status \in 200..299
    /\ answer.body.kind # "json"

\* The login failed with this status, wrote no cookie and did not redirect.
LoginFailedWith(r, name, status) ==
    /\ r.result.kind = "throw" /\ r.result.name = name
    /\ r.cookieOps = <<>>
    /\ r.outcome = Fail(status)

\* C30 as stated: a non-success response is surfaced as an ApiError with the
\* upstream status; a login whose response has no refresh token fails with
\* 502; in both cases no refresh cookie is written and the login action
\* fails with that status instead of redirecting.
C30_LoginFailureStatus ==
    \A p \in DOMAIN req :
        LET r == req[p] IN
        r.pc = "done" /\ r.call = "loginFromEvent"
        => /\ NonSuccess(r.answer)
                => /\ r.result = Threw("ApiError", r.answer.status)
                   /\ LoginFailedWith(r, "ApiError", r.answer.status)
           /\ (CredentialsWithoutRefresh(r.answer) \/ NoCredentials(r.answer))
                => /\ r.result = Threw("ApiError", 502)
                   /\ LoginFailedWith(r, "ApiError", 502)

\* What holds of the code: the statement for a non-success response and for
\* credentials without a refresh token; a success response that holds no
\* credentials (empty, not JSON, no jwt member) fails with 500, also
\* without a cookie and without a redirect.
LoginFailsWithoutCookie ==
    \A p \in DOMAIN req :
        LET r == req[p] IN
        /\ (r.pc = "done" /\ r.answer.kind # "none" /\ NonSuccess(r.answer))
              => r.result = Threw("ApiError", r.answer.status)
        /\ r.pc = "done" /\ r.call = "loginFromEvent"
           => /\ NonSuccess(r.answer) => LoginFailedWith(r, "ApiError", r.answer.status)
              /\ CredentialsWithoutRefresh(r.answer)
                   => /\ r.result = Threw("ApiError", 502)
                      /\ LoginFailedWith(r, "ApiError", 502)
              /\ NoCredentials(r.answer)
                   => /\ r.result.name \in {"TypeError", "SyntaxError"}
                      /\ LoginFailedWith(r, r.result.name, 500)


\* The refresh awaited by request p failed in this step.
RefreshFailedStep(p) ==
    \/ req[p].pc = "refreshB" /\ req'[p].pc # "refreshB" /\ req'[p].served # "refresh"
    \/ req[p].pc = "refreshU" /\ req'[p].pc # "refreshU" /\ req'[p].user # "provider"

\* The verification of request p failed, or a cookie was deleted (logout,
\* clearAuthCookies), in this step.
ClearingStep(p) ==
    \/ req'[p].verifyFailed /\ ~req[p].verifyFailed
    \/ /\ req'[p].cookieOps # <<>> /\ req'[p].cookieOps # req[p].cookieOps
       /\ req'[p].cookieOps[Len(req'[p].cookieOps)].op = "delete"

\* C31: access cache entries are removed only by the eviction of
\* trimAccessCacheIfNeeded, after an insert that exceeded the maximum;
\* logout, clearAuthCookies, a verification failure and a failed refresh
\* leave the cache unchanged; an entry is created only by a successful
\* refresh, under the refresh token of that refresh.
C31_CacheFrame ==
    [][ /\ \A k \in Keys(accessCache) \ Keys(accessCache') :
             \E p \in Procs :
                /\ InsertStep(p)
                /\ Cardinality(Keys(accessCache) \cup {Stored(req[p]).refresh_token})
                     > ACCESS_CACHE_MAX
        /\ \A k \in Keys(accessCache') \ Keys(accessCache) :
             \E p \in Procs : InsertStep(p) /\ k = Stored(req[p]).refresh_token
        /\ \A p \in Procs :
             (RefreshFailedStep(p) \/ ClearingStep(p)) => accessCache' = accessCache
      ]_vars

\* C31 witness: a logout has deleted the cookie of a session whose entry is
\* still in the cache.
C31_Witness ==
    \E p \in Procs :
        /\ req[p].pc = "done" /\ req[p].outcome = LoggedOut
        /\ Stored(req[p]).refresh_token \in Keys(accessCache)


\* C32: the entry a refresh inserts is still in the cache when that
\* getAccessTokenForRefresh call returns: under every interleaving with
\* other requests that touch or insert entries while the refresh awaits
\* upstream, the trim run by the inserting call never evicts the entry it
\* has just inserted.
C32_InsertSurvivesOwnTrim ==
    [][ \A p \in Procs :
          (req[p].pc = "refreshB" /\ InsertStep(p))
          => /\ Stored(req[p]).refresh_token \in Keys(accessCache')
             /\ CacheGet(accessCache', Stored(req[p]).refresh_token).last_used_at
                  = req[p].t0
      ]_vars


\* Request p calls upstream in this step: getAccessTokenForRefresh or
\* getUserFromEvent has run up to its await of userRefreshWithToken.
StartsRefresh(p) == req'[p].upstream = req[p].upstream + 1

\* The step wrote a refresh cookie for request p.
WroteCookie(p) ==
    \E i \in 1..Len(req'[p].cookieOps) :
        i > Len(req[p].cookieOps) /\ req'[p].cookieOps[i].op = "set"

\* The refresh awaited by request p throws in this step: the error leaves
\* the function (handle's catch block runs, or locals.user stays null), the
\* cache is as it was and no cookie is written.
FailureLeavesCache(p) ==
    /\ BearerRefreshFailed(p)
         => /\ accessCache' = accessCache /\ ~WroteCookie(p)
            /\ req'[p].pc = "done" /\ req'[p].outcome.kind # "resolve"
    /\ UserRefreshFailed(p)
         => /\ accessCache' = accessCache /\ ~WroteCookie(p)
            /\ req'[p].pc = "done" /\ req'[p].user = "null"

\* C33 as stated: a call whose upstream refresh throws propagates the error,
\* leaves the access cache, entries and last_used_at, unchanged and writes no
\* refresh cookie: it has changed nothing before it awaits upstream, and the
\* failing answer changes nothing.
C33_FailedRefreshChangesNothing ==
    [][ \A p \in Procs :
          /\ StartsRefresh(p) => accessCache' = accessCache /\ ~WroteCookie(p)
          /\ FailureLeavesCache(p)
      ]_vars

\* C33 amended: as stated for getAccessTokenForRefresh; getUserFromEvent has,
\* before it calls upstream, set last_used_at of the session's entry to the
\* current time when that entry is not expiring soon (expires_at - now above
\* the skew) and its token names no user, and has changed nothing else.
C33_FailedRefreshKeepsEntries ==
    [][ \A p \in Procs :
          LET k == Stored(req'[p]).refresh_token
              e == CacheGet(accessCache, k)
          IN
          /\ (StartsRefresh(p) /\ req'[p].pc = "refreshB")
               => accessCache' = accessCache /\ ~WroteCookie(p)
          /\ (StartsRefresh(p) /\ req'[p].pc = "refreshU")
               => /\ ~WroteCookie(p)
                  /\ accessCache' # accessCache
                       => /\ e.expires_at # NULL /\ e.expires_at - now > 20000
                          /\ ~userFromAccessToken(e.access_token)
                          /\ accessCache' = CacheTouch(accessCache, k, now)
          /\ FailureLeavesCache(p)
      ]_vars

\* C33 witness: the refresh of getUserFromEvent has failed for a session
\* whose fresh entry names no user: the request went on without an identity
\* and the entry carries the time of the lookup.
C33_Witness ==
    \E p \in Procs :
        LET e == CacheGet(accessCache, Stored(req[p]).refresh_token) IN
        /\ req[p].pc = "done" /\ req[p].outcome.kind = "resolve"
        /\ req[p].upstream >= 1 /\ req[p].user = "null"
        /\ e # NoEntry /\ e.expires_at # NULL /\ e.expires_at - now > 20000
        /\ ~userFromAccessToken(e.access_token)
        /\ e.last_used_at = now /\ now > req[p].t0


\* The path is neither '/' nor under '/api/'.
OpenPath(path) == path # <<>> /\ ~(Len(path) >= 2 /\ path[1] = "api")

\* C34: handle starts every request with event.locals.user and
\* event.locals.bearer null, and for a path that is neither '/' nor under
\* '/api/' it calls resolve with both still null, without an upstream call,
\* a cache access or a cookie change.
C34_OpenPathsPassThrough ==
    /\ [](\A p \in Procs :
            LET r == req[p] IN
            (Started(r) /\ OpenPath(r.path))
            => /\ r.pc = "done" /\ r.outcome = Resolved
               /\ r.user = "null" /\ r.localsBearer = NoBearer
               /\ r.upstream = 0 /\ r.lookups = 0 /\ ~r.wrote
               /\ r.cookieOps = <<>>)
    /\ [][ \A p \in Procs :
             (req[p].pc = "idle" /\ req'[p].pc # "idle")
             => /\ req'[p].user = "null" /\ req'[p].localsBearer = NoBearer
                /\ OpenPath(req'[p].path) => accessCache' = accessCache
       ]_vars

\* C34 witness: a request for the login page that carried a usable refresh
\* cookie went through untouched.
C34_Witness ==
    \E p \in Procs :
        /\ req[p].pc = "done" /\ OpenPath(req[p].path)
        /\ Stored(req[p]) # NoSession
        /\ req[p].outcome = Resolved


\* C35: initPostgres is single-flight.  Under any interleaving of concurrent
\* and repeated calls at most one pool is constructed and one initial query
\* sent, every caller that receives a pool receives that one, and
\* getPostgresPool returns the pool only once the initial query has
\* succeeded and fails otherwise.
C35_SingleFlight ==
    /\ [](/\ heap.created <= 1 /\ heap.queries <= 1
          /\ heap.pool # NoPool => heap.initPromise = "fulfilled"
          /\ \A p \in Procs :
               (req[p].pc = "done" /\ req[p].result # PgError)
               => /\ req[p].result = heap.pool
                  /\ heap.initPromise = "fulfilled")
    /\ [][ \A p \in Procs :
             (req[p].pc = "idle" /\ req'[p].call = "getPostgresPool")
             => ((req'[p].result = PgError) <=> (heap.initPromise # "fulfilled"))
       ]_vars

\* C35 witness: one caller started the initialisation, another joined it
\* while the query was pending, and both hold the one pool.
C35_Witness ==
    \E p, q \in Procs :
        /\ req[p].pc = "done" /\ req[p].via = "create"
        /\ req[q].pc = "done" /\ req[q].via = "promise"
        /\ req[p].result = heap.pool /\ req[q].result = heap.pool
        /\ heap.created = 1


\* A call that began with a populated cache never throws.
PopulatedNeverFails ==
    \A p \in Procs : (req[p].pc = "done" /\ req[p].had) => ~req[p].threw

\* A call that finds the cache within its TTL returns the cached list and
\* starts no listing.
FreshServedStep(p) ==
    (req[p].pc = "idle" /\ req'[p].pc # "idle" /\ isFresh(heap.cache, now))
    => /\ req'[p].pc = "done"
       /\ req'[p].result = heap.cache.videoSlugs
       /\ heap' = heap

\* A refresh that failed or timed out returns the list the cache holds and
\* sets fetchedAt to the time of its call.
StaleServedStep(p) ==
    (req[p].pc = "listing" /\ req'[p].pc = "done" /\ req'[p].via = "stale")
    => /\ req'[p].result = heap.cache.videoSlugs
       /\ heap'.cache = VideoCache(TRUE, req[p].now, heap.cache.videoSlugs)

\* What holds of the listing cache whatever the calls' overlap.
VideoCacheServes ==
    /\ [] PopulatedNeverFails
    /\ [][\A p \in Procs : FreshServedStep(p) /\ StaleServedStep(p)]_vars

\* A listing is started over a populated cache.
StartsListing(q) ==
    req[q].pc = "idle" /\ req'[q].pc = "listing" /\ heap.cache.set

\* C36: once the cache is populated getCachedMp4Keys never fails, within the
\* TTL it returns the cached list without listing the bucket, and once a
\* refresh has failed or timed out (returning the cached list, fetchedAt
\* reset) no listing is started until a full TTL after that refresh began.
C36_StaleBackoff ==
    /\ VideoCacheServes
    /\ [][\A q \in Procs : StartsListing(q) =>
            \A p \in Procs :
               (req[p].pc = "done" /\ req[p].via = "stale")
               => now - req[p].now >= CACHE_TTL_MS]_vars


InFlight == {f \in Procs : req[f].pc # "idle"}

NoPageTwice ==
    \A i, j \in 1..Len(heap.videos) : heap.videos[i] = heap.videos[j] => i = j

\* C37: at most one page fetch is in flight; fetchNextPage starts nothing
\* while loading is true or hasMore is false, so a fetch waiting for its
\* answer asks for the current page with hasMore true, no page is appended
\* twice, and loading is true exactly while a fetch is in flight.
C37_OneFetchInFlight ==
    /\ Cardinality(InFlight) <= 1
    /\ heap.loading <=> InFlight # {}
    /\ \A f \in Procs :
          req[f].pc = "fetching" => heap.hasMore /\ req[f].page = heap.page
    /\ NoPageTwice

\* Every page was appended, a call was refused meanwhile, and nothing is
\* loading any more.
C37_Witness ==
    /\ Len(heap.videos) = MaxPages
    /\ heap.refused
    /\ ~heap.loading
    /\ ~heap.hasMore


LatestSettled ==
    \A s \in 1..MaxShows :
       s = heap.videoInfoFetchSeq => req[s].pc # "pending"

SlideGuarded ==
    [][\A p \in Procs :
         (req[p].pc = "idle" /\ req'[p].pc = "awaiting") => ~heap.sliding]_vars

\* C39: at most one slide transition runs at a time, and while the modal is
\* closed (from closeModal to the next openModal) activeVideo and
\* activeIndex are null and sliding is false, also when a slide's
\* completion timer was pending at the close.
C39_ClosedModalStaysClosed ==
    /\ Cardinality({p \in Procs : req[p].pc # "idle"}) <= 1
    /\ ~heap.modalOpen =>
          /\ heap.activeVideo = NoVideo
          /\ heap.activeIndex = NULL
          /\ ~heap.sliding

====
